---- MODULE Spec2Model ----
(***************************************************************************)
(* Invoice-MCP: the invoice generation pipeline.                           *)
(*                                                                         *)
(* Two entry points of the repository are modelled:                        *)
(*   - the Supabase server (server/src/index-smithery-robust.ts): the      *)
(*     CallTool handler, ensureInitialized, handleGenerateInvoice and      *)
(*     SupabaseManager.uploadPDF;                                          *)
(*   - the local-file HTTP server (unnamed/part_003, part_004): its        *)
(*     CallTool handler, saveInvoiceMetadata and GET /files/:filename;     *)
(* and the storage collaborator SimpleCloudStorage.uploadFile              *)
(* (server/src/shared/utils/cloud-storage.ts).                             *)
(*                                                                         *)
(* Representation.                                                         *)
(*   Strings are sequences of tokens (<<"invoice-", "A", ".pdf">>), so     *)
(*   template literals are concatenations.  An optional value is a         *)
(*   sequence of length at most one (<<>> is undefined).                   *)
(*   Numbers are exact: quantity and unitPrice are integers, vatRate is    *)
(*   counted in hundredths (0.20 is 20), item totals and subtotal are in   *)
(*   money units, vatAmount and total are in hundredths of a money unit.   *)
(*   Dates are day numbers; an unparseable date is InvalidDate.            *)
(***************************************************************************)
EXTENDS Integers, Sequences, FiniteSets, TLC

VARIABLES
    pc,           \* pc[r]: position of request r in its handler
    args,         \* args[r]: request.params.arguments of request r
    invoice,      \* invoice[r]: the assembled invoice handed to InvoiceSchema
    validation,   \* validation[r]: result of InvoiceSchema.safeParse
    renderInput,  \* renderInput[r]: sequence of records handed to the renderer
    storeCalls,   \* storeCalls[r]: sequence of names the store was asked to store
    response,     \* response[r]: what the caller of request r is answered
    lifecycle,    \* lifecycle[r]: lifecycle states request r went through
    initialized,  \* createMcpServer's closure variable
    bucket,       \* the Supabase bucket: set of stored objects [name, pdf]
    clock,        \* Date.now()
    files,        \* the local file system: set of files [path, pdf]
    metadataFile, \* temp/invoices-metadata.json: <<>> or <<list of entries>>
    existingData, \* existingData[r]: saveInvoiceMetadata's local list
    lastGet,      \* the answer to the last GET /files/:filename
    cloud,        \* the remote store behind cloud-storage.ts: set of [name, content]
    uploaded,     \* the last call of uploadToCloudStorage and how it ended
    rest,         \* the /invoices request in flight on the local-file server
    lastRest,     \* the answer to the last /invoices request
    transports,   \* transports: session ID -> transport (index-smithery-robust.ts)
    servers,      \* servers: session ID -> server
    created,      \* how many server/transport pairs POST /mcp has created
    closed,       \* the transports that have closed
    lastMcp,      \* the last request to /mcp and its answer
    configInput,  \* parseConfig: the request's query and the environment
    configResult, \* parseConfig: what it returned or threw
    currentConfig, \* part_007's module variable currentConfig
    lastAuth,     \* the last request seen by authenticateRequest and its fate
    metadataStore, \* invoices-metadata.json in the storage provider
    saved         \* the entries handed to MetadataStorage.saveMetadata so far

vars == <<pc, args, invoice, validation, renderInput, storeCalls, response,
          lifecycle, initialized, bucket, clock, files, metadataFile,
          existingData, lastGet, cloud, uploaded, rest, lastRest, transports,
          servers, created, closed, lastMcp, configInput, configResult,
          currentConfig, lastAuth, metadataStore, saved>>

\* the state of the Supabase server, and that of the local-file server
supabaseVars == <<initialized, bucket>>
localVars == <<files, metadataFile, existingData, lastGet>>
cloudVars == <<cloud, uploaded>>

\* the state of the HTTP endpoints next to the CallTool handlers
restVars == <<rest, lastRest>>
sessionVars == <<transports, servers, created, closed, lastMcp>>
configVars == <<configInput, configResult>>
authVars == <<currentConfig, lastAuth>>
metadataVars == <<metadataStore, saved>>
httpVars == <<restVars, sessionVars, configVars, authVars, metadataVars>>

\* the state of the CallTool handlers and their stores
handlerVars == <<pc, args, invoice, validation, renderInput, storeCalls, response,
                 lifecycle, clock, supabaseVars, localVars, cloudVars>>

-----------------------------------------------------------------------------
(* Bounds and input domains *)

MaxItems == 2
MaxRequests == 2

Reqs == {"r1", "r2"}

Absent == <<>>
Some(v) == <<v>>
IsSome(o) == Len(o) = 1
Get(o) == o[1]

InvoiceNumbers == {<<"A">>, <<"B">>}
Quantities == {0, 2}
UnitPrices == {-1, 5}
CallerTotals == {Absent, Some(7)}
CurrencyInputs == {Absent, Some("USD"), Some("XXX")}
VatRateInputs == {Absent, Some(10)}
DueDateInputs == {Absent, Some("2030-01-31"), Some("garbage")}

ItemInputs ==
    [description : {"work"}, quantity : Quantities, unitPrice : UnitPrices,
     total : CallerTotals]

SeqUpTo(S, n) == UNION {[1..k -> S] : k \in 0..n}

ItemLists == SeqUpTo(ItemInputs, MaxItems)

-----------------------------------------------------------------------------
(* Dates *)

InvalidDate == [valid |-> FALSE, day |-> 0]
ValidDate(d) == [valid |-> TRUE, day |-> d]

\* new Date(string)
ParseDate(s) == IF s = "2030-01-31" THEN ValidDate(1000) ELSE InvalidDate

DueDays == 30

-----------------------------------------------------------------------------
(* Arithmetic of handleGenerateInvoice *)

DefaultCurrency == "GBP"
DefaultVatRate == 20

Hundredths(x) == x * 100

\* items.map(item => ({...item, total: item.quantity * item.unitPrice}))
ItemWithTotalKeepCaller(item) ==
    [item EXCEPT !.total =
        IF IsSome(item.total) THEN Get(item.total)
        ELSE item.quantity * item.unitPrice]

ItemWithTotal(item) ==
    [item EXCEPT !.total = item.quantity * item.unitPrice]

ItemsWithTotals(items) == [i \in 1..Len(items) |-> ItemWithTotal(items[i])]

\* itemsWithTotals.reduce((sum, item) => sum + item.total, 0)
RECURSIVE SumTotals(_)
SumTotals(items) ==
    IF Len(items) = 0 THEN 0
    ELSE SumTotals(SubSeq(items, 1, Len(items) - 1)) + items[Len(items)].total

SubtotalFirstOnly(items) == IF Len(items) = 0 THEN 0 ELSE items[1].total

Subtotal(items) == SumTotals(items)

\* subtotal * vatRate, in hundredths
VatAmount(subtotal, vatRate) == subtotal * vatRate

TotalWithoutVat(subtotal, vatAmount) == Hundredths(subtotal)

\* subtotal + vatAmount, in hundredths
Total(subtotal, vatAmount) == Hundredths(subtotal) + vatAmount

\* total.toFixed(2): whole units and two fractional digits
ToFixed2(total) == [units |-> total \div 100, cents |-> total % 100]

-----------------------------------------------------------------------------
(* handleGenerateInvoice: assembling the invoice *)

GenerateTool == "generate-invoice-pdf"

ArgsDomain ==
    [invoiceNumber : InvoiceNumbers, clientName : {<<"Acme">>},
     items : ItemLists, currency : CurrencyInputs, vatRate : VatRateInputs,
     dueDate : DueDateInputs]

\* const { currency = "GBP", vatRate = 0.20 } = args
CurrencyOf(a) == IF IsSome(a.currency) THEN Get(a.currency) ELSE DefaultCurrency
VatRateOf(a) == IF IsSome(a.vatRate) THEN Get(a.vatRate) ELSE DefaultVatRate

\* a due date that is always counted from the clock
DueDateFromClock(a, now) == ValidDate(now + DueDays)

\* dueDate ? new Date(dueDate) : new Date(Date.now() + 30 days)
DueDateOf(a, now) ==
    IF IsSome(a.dueDate) THEN ParseDate(Get(a.dueDate)) ELSE ValidDate(now + DueDays)

\* a calculator whose VAT depends on when it runs
BuildInvoiceTimeDependent(a, now) ==
    LET items == ItemsWithTotals(a.items)
        subtotal == Subtotal(items)
        vatRate == VatRateOf(a)
        vatAmount == VatAmount(subtotal, vatRate + now)
    IN  [invoiceNumber |-> a.invoiceNumber,
         date |-> ValidDate(now),
         dueDate |-> DueDateOf(a, now),
         customer |-> a.clientName,
         items |-> items,
         subtotal |-> subtotal,
         vatRate |-> vatRate,
         vatAmount |-> vatAmount,
         total |-> Total(subtotal, vatAmount),
         currency |-> CurrencyOf(a),
         nan |-> {}]

BuildInvoice(a, now) ==
    LET items == ItemsWithTotals(a.items)
        subtotal == Subtotal(items)
        vatRate == VatRateOf(a)
        vatAmount == VatAmount(subtotal, vatRate)
    IN  [invoiceNumber |-> a.invoiceNumber,
         date |-> ValidDate(now),
         dueDate |-> DueDateOf(a, now),
         customer |-> a.clientName,
         items |-> items,
         subtotal |-> subtotal,
         vatRate |-> vatRate,
         vatAmount |-> vatAmount,
         total |-> Total(subtotal, vatAmount),
         currency |-> CurrencyOf(a),
         nan |-> {}]

NoInvoice == [invoiceNumber |-> <<>>]

-----------------------------------------------------------------------------
(* InvoiceSchema (shared/types/invoice.ts): the schema of spec sections 3, 4.1, 7 *)

Currencies == {"GBP", "USD", "EUR", "CAD"}

If(cond, path) == IF cond THEN {path} ELSE {}

\* the paths of the invoice that violate the schema
SchemaIssues(inv) ==
    If(Len(inv.items) = 0, <<"items">>)
    \cup {<<"items", ToString(i), "quantity">> :
             i \in {j \in 1..Len(inv.items) : inv.items[j].quantity <= 0}}
    \cup {<<"items", ToString(i), "unitPrice">> :
             i \in {j \in 1..Len(inv.items) : inv.items[j].unitPrice < 0}}
    \cup If(inv.currency \notin Currencies, <<"currency">>)
    \cup If(~inv.dueDate.valid, <<"dueDate">>)
    \cup If(~inv.date.valid, <<"date">>)
    \cup {<<field>> : field \in inv.nan}

\* InvoiceSchema.safeParse(invoice)
SafeParse(inv) ==
    LET issues == SchemaIssues(inv)
    IN  [success |-> issues = {}, data |-> IF issues = {} THEN inv ELSE NoInvoice,
         issues |-> issues]

\* `${validationResult.error.message}`: the message of a ZodError lists every
\* issue with its path; the paths that the text names
IssuesInMessage(issues) == issues

\* `${validationResult.error.format()}`: format() returns an object, and an
\* object in a template string reads "[object Object]"; the text names no path
IssuesInFormatted(issues) == {}

NotParsed == [success |-> FALSE, data |-> NoInvoice, issues |-> {}]

-----------------------------------------------------------------------------
(* The renderer and the Supabase store *)

\* generateInvoicePdfBuffer(validatedInvoice): the bytes rendered for the
\* request with JSON-RPC id `id` (what was rendered is kept in renderInput)
PdfOf(id, inv) == [request |-> id, invoiceNumber |-> inv.invoiceNumber]

StorageBucket == "invoices"

\* `invoice-${invoiceNumber}-${Date.now()}.pdf`
UploadFilename(invoiceNumber, now) ==
    <<"invoice-">> \o invoiceNumber \o <<"-", ToString(now)>> \o <<".pdf">>

\* supabase.storage.from(bucket).getPublicUrl(filename)
PublicUrl(filename) == <<"https://supabase/public/", StorageBucket, "/">> \o filename

\* upload(filename, buffer, {upsert: true})
Upsert(store, name, pdf) ==
    {o \in store : o.name # name} \cup {[name |-> name, pdf |-> pdf]}

-----------------------------------------------------------------------------
(* Responses *)

NoResponse == [outcome |-> "none"]

\* the text of handleGenerateInvoice's result
SuccessResponse(a, inv, url) ==
    [outcome |-> "success",
     invoiceNumber |-> a.invoiceNumber,
     clientName |-> a.clientName,
     currency |-> CurrencyOf(a),
     total |-> ToFixed2(inv.total),
     locator |-> url]

\* the CallTool handler's catch: `Error: ${error.message}`
ErrorResponse(message, issues) ==
    [outcome |-> "error", message |-> message, issues |-> issues]

\* an exception that leaves the CallTool handler: a JSON-RPC error
ProtocolError(message) ==
    [outcome |-> "protocol-error", message |-> message, issues |-> {}]

InvalidInvoiceMessage == <<"Invalid invoice data: ">>
UploadFailedMessage == <<"PDF upload failed: ">>
RenderFailedMessage == <<"(message of the renderer's error)">>
InitFailedMessage == <<"(message of the initialisation error)">>
UnknownToolMessage == <<"Unknown tool: ">>

-----------------------------------------------------------------------------
(* State *)

NoGet == [filename |-> <<>>, status |-> 0, body |-> <<>>]

NoUpload == [provider |-> "none"]

NoRest == [op |-> "none", invoiceNumber |-> <<>>, status |-> "none", metadata |-> <<>>]

NoMcp == [method |-> "none", sessionId |-> <<>>, initialize |-> FALSE, code |-> 0,
          error |-> 0, transport |-> 0]

NoConfigInput == [base64 |-> <<>>, query |-> <<>>, env |-> <<>>]

NoConfigResult == [thrown |-> FALSE, config |-> <<>>]

NoAuth == [connection |-> <<>>, authorization |-> <<>>, code |-> 0]

NoRestAnswer ==
    [op |-> "none", invoiceNumber |-> <<>>, status |-> "none", code |-> 0, body |-> <<>>]

NoArgs == [tool |-> "none", id |-> 0, arguments |-> [invoiceNumber |-> <<>>]]

Idle == [r \in Reqs |-> "idle"]

\* the state after construction, but for parseConfig's input
InitButConfig ==
    /\ pc = Idle
    /\ args = [r \in Reqs |-> NoArgs]
    /\ invoice = [r \in Reqs |-> NoInvoice]
    /\ validation = [r \in Reqs |-> NotParsed]
    /\ renderInput = [r \in Reqs |-> <<>>]
    /\ storeCalls = [r \in Reqs |-> <<>>]
    /\ response = [r \in Reqs |-> NoResponse]
    /\ lifecycle = [r \in Reqs |-> <<>>]
    /\ initialized = FALSE
    /\ bucket = {}
    /\ clock = 0
    /\ files = {}
    /\ metadataFile = <<>>
    /\ existingData = [r \in Reqs |-> <<>>]
    /\ lastGet = NoGet
    /\ cloud = {}
    /\ uploaded = NoUpload
    /\ rest = NoRest
    /\ lastRest = NoRestAnswer
    /\ transports = {}
    /\ servers = {}
    /\ created = 0
    /\ closed = {}
    /\ lastMcp = NoMcp
    /\ configResult = NoConfigResult
    /\ currentConfig = Absent
    /\ lastAuth = NoAuth
    /\ metadataStore = Absent
    /\ saved = <<>>

Init ==
    /\ InitButConfig
    /\ configInput = NoConfigInput

Step(r, to, states) ==
    /\ pc' = [pc EXCEPT ![r] = to]
    /\ lifecycle' = [lifecycle EXCEPT ![r] = @ \o states]

\* a result kept in one place for all requests
AnswerShared(r, resp) == response' = [q \in Reqs |-> resp]

Answer(r, resp) == response' = [response EXCEPT ![r] = resp]

-----------------------------------------------------------------------------
(* The Supabase server: CallTool handler of index-smithery-robust.ts *)

\* a tools/call request, drawn from `calls`, reaches the handler
Receive(r, calls) ==
    /\ pc[r] = "idle"
    /\ clock < MaxRequests
    /\ clock' = clock + 1
    /\ \E c \in calls :
          args' = [args EXCEPT ![r] =
                      [tool |-> c.tool, id |-> clock', arguments |-> c.arguments]]
    /\ Step(r, "ensureInitialized", <<"Received">>)
    /\ UNCHANGED <<invoice, validation, renderInput, storeCalls, response,
                   initialized, bucket, localVars, cloudVars, httpVars>>

\* the answer has been sent: the request is over and its locals are gone
Return(r) ==
    /\ pc[r] = "done"
    /\ pc' = [pc EXCEPT ![r] = "idle"]
    /\ args' = [args EXCEPT ![r] = NoArgs]
    /\ lifecycle' = [lifecycle EXCEPT ![r] = <<>>]
    /\ invoice' = [invoice EXCEPT ![r] = NoInvoice]
    /\ validation' = [validation EXCEPT ![r] = NotParsed]
    /\ renderInput' = [renderInput EXCEPT ![r] = <<>>]
    /\ storeCalls' = [storeCalls EXCEPT ![r] = <<>>]
    /\ response' = [response EXCEPT ![r] = NoResponse]
    /\ existingData' = [existingData EXCEPT ![r] = <<>>]
    /\ UNCHANGED <<initialized, bucket, clock, files, metadataFile, lastGet, cloudVars, httpVars>>

\* ensureInitialized: if (!initialized) ... else fall through
AlreadyInitialized(r) ==
    /\ pc[r] = "ensureInitialized"
    /\ initialized
    /\ Step(r, "handle", <<>>)
    /\ UNCHANGED <<args, invoice, validation, renderInput, storeCalls, response,
                   initialized, bucket, clock, localVars, cloudVars, httpVars>>

\* ensureInitialized with the flag set before initialize() has resolved
StartInitializeSetsFlag(r) ==
    /\ pc[r] = "ensureInitialized"
    /\ ~initialized
    /\ initialized' = TRUE
    /\ Step(r, "initializing", <<>>)
    /\ UNCHANGED <<args, invoice, validation, renderInput, storeCalls, response,
                   bucket, clock, localVars, cloudVars, httpVars>>

\* ensureInitialized: await supabaseManager.initialize() is started
StartInitialize(r) ==
    /\ pc[r] = "ensureInitialized"
    /\ ~initialized
    /\ Step(r, "initializing", <<>>)
    /\ UNCHANGED <<args, invoice, validation, renderInput, storeCalls, response,
                   initialized, bucket, clock, localVars, cloudVars, httpVars>>

\* initialize() resolves: initialized = true
InitializeOk(r) ==
    /\ pc[r] = "initializing"
    /\ initialized' = TRUE
    /\ Step(r, "handle", <<>>)
    /\ UNCHANGED <<args, invoice, validation, renderInput, storeCalls, response,
                   bucket, clock, localVars, cloudVars, httpVars>>

\* initialize() throws: the exception leaves the handler (it is outside the try)
InitializeFail(r) ==
    /\ pc[r] = "initializing"
    /\ Answer(r, ProtocolError(InitFailedMessage))
    /\ Step(r, "done", <<"Rejected">>)
    /\ UNCHANGED <<args, invoice, validation, renderInput, storeCalls,
                   initialized, bucket, clock, localVars, cloudVars, httpVars>>

\* switch (request.params.name) default: throw, caught by the handler
HandleUnknownTool(r) ==
    /\ pc[r] = "handle"
    /\ args[r].tool # GenerateTool
    /\ Answer(r, ErrorResponse(UnknownToolMessage, {}))
    /\ Step(r, "done", <<"Rejected">>)
    /\ UNCHANGED <<args, invoice, validation, renderInput, storeCalls,
                   initialized, bucket, clock, localVars, cloudVars, httpVars>>

\* what the collaborators (renderer, Supabase) may answer
Outcomes == {"ok", "error"}

\* await generateInvoicePdfBuffer(...): a rejected promise throws
RendererNeverThrows(outcome) == FALSE

RendererThrows(outcome) == outcome = "error"

\* uploadPDF: if (error) throw new Error(`PDF upload failed: ...`)
UploadNeverThrows(outcome) == FALSE

UploadThrows(outcome) == outcome = "error"

\* if (!validationResult.success) throw
ValidationRejectsNothing(v) == FALSE

ValidationRejects(v) == ~v.success

\* generateInvoicePdfBuffer(validatedInvoice): validatedInvoice = validationResult.data
RenderArgument(inv, v) == v.data

\* handleGenerateInvoice up to the throw on a failed validation
HandleInvalid(r) ==
    LET inv == BuildInvoice(args[r].arguments, clock)
        v == SafeParse(inv)
    IN  /\ pc[r] = "handle"
        /\ args[r].tool = GenerateTool
        /\ ValidationRejects(v)
        /\ invoice' = [invoice EXCEPT ![r] = inv]
        /\ validation' = [validation EXCEPT ![r] = v]
        /\ Answer(r, ErrorResponse(InvalidInvoiceMessage, IssuesInMessage(v.issues)))
        /\ Step(r, "done", <<"Validating", "Invalid", "Rejected">>)
        /\ UNCHANGED <<args, renderInput, storeCalls, initialized, bucket, clock, localVars, cloudVars, httpVars>>

\* handleGenerateInvoice up to the call of generateInvoicePdfBuffer
HandleValid(r) ==
    LET inv == BuildInvoice(args[r].arguments, clock)
        v == SafeParse(inv)
    IN  /\ pc[r] = "handle"
        /\ args[r].tool = GenerateTool
        /\ ~ValidationRejects(v)
        /\ invoice' = [invoice EXCEPT ![r] = inv]
        /\ validation' = [validation EXCEPT ![r] = v]
        /\ renderInput' = [renderInput EXCEPT ![r] = Append(@, RenderArgument(inv, v))]
        /\ Step(r, "rendering",
                <<"Validating", IF v.success THEN "Valid" ELSE "Invalid", "Rendering">>)
        /\ UNCHANGED <<args, storeCalls, response, initialized, bucket, clock, localVars, cloudVars, httpVars>>

\* the renderer throws: caught by the handler
RenderFail(r) ==
    \E o \in Outcomes :
        /\ pc[r] = "rendering"
        /\ RendererThrows(o)
        /\ Answer(r, ErrorResponse(RenderFailedMessage, {}))
        /\ Step(r, "done", <<"RenderFailed", "Rejected">>)
        /\ UNCHANGED <<args, invoice, validation, renderInput, storeCalls,
                       initialized, bucket, clock, localVars, cloudVars, httpVars>>

\* the renderer returns; uploadPDF(pdfBuffer, filename) is called
RenderOk(r) ==
    \E o \in Outcomes :
        /\ pc[r] = "rendering"
        /\ ~RendererThrows(o)
        /\ storeCalls' = [storeCalls EXCEPT ![r] =
                Append(@, UploadFilename(args[r].arguments.invoiceNumber, clock))]
        /\ Step(r, "uploading", <<IF o = "ok" THEN "Rendered" ELSE "RenderFailed">>)
        /\ UNCHANGED <<args, invoice, validation, renderInput, response,
                       initialized, bucket, clock, localVars, cloudVars, httpVars>>

\* a failed upload that is tried again instead of being reported
UploadRetry(r) ==
    \E o \in Outcomes :
        /\ pc[r] = "uploading"
        /\ UploadThrows(o)
        /\ Len(storeCalls[r]) < 3
        /\ storeCalls' = [storeCalls EXCEPT ![r] = Append(@, @[Len(@)])]
        /\ UNCHANGED <<pc, lifecycle, args, invoice, validation, renderInput, response,
                       initialized, bucket, clock, localVars, cloudVars, httpVars>>

\* the upload returns an error: uploadPDF throws, the handler catches
UploadFail(r) ==
    \E o \in Outcomes :
        /\ pc[r] = "uploading"
        /\ UploadThrows(o)
        /\ Answer(r, ErrorResponse(UploadFailedMessage, {}))
        /\ Step(r, "done", <<"Rejected">>)
        /\ UNCHANGED <<args, invoice, validation, renderInput, storeCalls,
                       initialized, bucket, clock, localVars, cloudVars, httpVars>>

\* uploadPDF returns the public URL of the stored object; the result is returned
UploadOk(r) ==
    \E o \in Outcomes :
        LET name == storeCalls[r][Len(storeCalls[r])]
            pdf == PdfOf(args[r].id, renderInput[r][Len(renderInput[r])])
        IN  /\ pc[r] = "uploading"
            /\ ~UploadThrows(o)
            /\ bucket' = IF o = "ok" THEN Upsert(bucket, name, pdf) ELSE bucket
            /\ Answer(r, SuccessResponse(args[r].arguments, invoice[r], PublicUrl(name)))
            /\ Step(r, "done", <<"Delivered">>)
            /\ UNCHANGED <<args, invoice, validation, renderInput, storeCalls,
                           initialized, clock, localVars, cloudVars, httpVars>>

GenerateCalls == [tool : {GenerateTool}, arguments : ArgsDomain]
OtherCalls == [tool : {"other-tool"}, arguments : {[invoiceNumber |-> <<>>]}]

\* one client: requests are served one after the other
Next ==
    \E r \in {"r1"} :
        \/ Receive(r, GenerateCalls)
        \/ Receive(r, OtherCalls)
        \/ AlreadyInitialized(r)
        \/ StartInitialize(r)
        \/ InitializeOk(r)
        \/ InitializeFail(r)
        \/ HandleUnknownTool(r)
        \/ HandleInvalid(r)
        \/ HandleValid(r)
        \/ RenderFail(r)
        \/ RenderOk(r)
        \/ UploadFail(r)
        \/ UploadOk(r)
        \/ Return(r)

Spec == Init /\ [][Next]_vars

-----------------------------------------------------------------------------
(* The local-file server (src/unnamed/part_004): its requests *)

\* process.cwd()/temp
TempDir == <<"/app/temp/">>

\* outputPath: omitted, or a path of the caller's choosing
OutputPaths == {Absent, Some(<<"/home/user/", "out", ".pdf">>)}

\* subtotal, vatAmount and total as the caller may supply them in `invoice`
CallerAggregates == {Absent, Some([subtotal |-> 1, vatAmount |-> 2, total |-> 3])}

InvoiceData(items, dueDates, currencies, vatRates, aggregates) ==
    [invoiceNumber : InvoiceNumbers, date : {"2030-01-31"}, dueDate : dueDates,
     customer : {<<"Acme">>}, items : items, vatRate : vatRates,
     currency : currencies, aggregates : aggregates]

\* a property the caller left out reads as undefined
Undefined == "undefined"

\* subtotal * undefined is NaN and subtotal + NaN is NaN: the fields of the
\* calculated invoice that hold no number (they are kept as 0 in the record)
NotNumbers(data) ==
    IF IsSome(data.vatRate) THEN {} ELSE {"vatRate", "vatAmount", "total"}

\* invoiceData.currency || 'GBP'
CurrencyOrDefault(data) ==
    IF IsSome(data.currency) THEN Get(data.currency) ELSE DefaultCurrency

\* {...invoiceData, ..., subtotal, vatAmount, total}: the later keys win
KeepCallerAggregates(supplied, computed) ==
    IF IsSome(supplied) THEN Get(supplied) ELSE computed

CalculatedAggregates(supplied, computed) == computed

\* calculatedInvoice, with date = new Date(invoiceData.date) and
\* dueDate = new Date(invoiceData.dueDate)
CalculatedInvoice(data, date, dueDate) ==
    LET items == ItemsWithTotals(data.items)
        subtotal == Subtotal(items)
        vatRate == IF IsSome(data.vatRate) THEN Get(data.vatRate) ELSE 0
        vatAmount == VatAmount(subtotal, vatRate)
        computed == [subtotal |-> subtotal, vatAmount |-> vatAmount,
                     total |-> Total(subtotal, vatAmount)]
        agg == CalculatedAggregates(data.aggregates, computed)
    IN  [invoiceNumber |-> data.invoiceNumber,
         date |-> date,
         dueDate |-> dueDate,
         customer |-> data.customer,
         items |-> items,
         subtotal |-> agg.subtotal,
         vatRate |-> vatRate,
         vatAmount |-> agg.vatAmount,
         total |-> agg.total,
         currency |-> IF IsSome(data.currency) THEN Get(data.currency) ELSE Undefined,
         nan |-> NotNumbers(data)]

\* `invoice-${invoiceData.invoiceNumber}.pdf`
LocalFilename(invoiceNumber) == <<"invoice-">> \o invoiceNumber \o <<".pdf">>

\* join(process.cwd(), "temp", filename)
TempPath(filename) == TempDir \o filename

\* outputPath || defaultPath
FinalOutputPath(a) ==
    IF IsSome(a.outputPath) THEN Get(a.outputPath)
    ELSE TempPath(LocalFilename(a.invoice.invoiceNumber))

\* `/files/${filename}`
DownloadUrl(filename) == <<"/files/">> \o filename

\* writeFile(path, content): the file is created or replaced
WriteFile(fs, path, pdf) ==
    {f \in fs : f.path # path} \cup {[path |-> path, pdf |-> pdf]}

FailedToGenerate == <<"Failed to generate invoice PDF">>
FailedToGenerateWith == <<"Failed to generate invoice PDF: ">>
ToolNotFound == <<"Tool not found">>

\* the text of the handler's result
LocalSuccessResponse(a, inv, url) ==
    [outcome |-> "success",
     invoiceNumber |-> a.invoice.invoiceNumber,
     clientName |-> a.invoice.customer,
     currency |-> CurrencyOrDefault(a.invoice),
     total |-> ToFixed2(inv.total),
     locator |-> url]

\* invoiceMetadata
InvoiceMetadata(a, inv, now) ==
    [invoiceNumber |-> a.invoice.invoiceNumber,
     filename |-> LocalFilename(a.invoice.invoiceNumber),
     downloadUrl |-> DownloadUrl(LocalFilename(a.invoice.invoiceNumber)),
     createdAt |-> now,
     total |-> ToFixed2(inv.total),
     currency |-> CurrencyOrDefault(a.invoice),
     clientName |-> a.invoice.customer,
     status |-> "generated"]

\* existingData.filter(inv => inv.invoiceNumber !== n)
RECURSIVE WithoutInvoice(_, _)
WithoutInvoice(list, n) ==
    IF Len(list) = 0 THEN <<>>
    ELSE IF list[1].invoiceNumber = n THEN WithoutInvoice(Tail(list), n)
    ELSE <<list[1]>> \o WithoutInvoice(Tail(list), n)

-----------------------------------------------------------------------------
(* The local-file server: GET /files/:filename *)

EndsWith(name, suffix) == Len(name) > 0 /\ name[Len(name)] = suffix
Includes(name, part) == \E i \in 1..Len(name) : name[i] = part

\* the filenames a client asks for
RequestedFilenames ==
    {LocalFilename(n) : n \in InvoiceNumbers}
    \cup {<<"..", "/", "secret", ".pdf">>, <<"notes", ".txt">>}

GetAnswer(filename, status, body) ==
    [filename |-> filename, status |-> status, body |-> body]

\* app.get('/files/:filename')
ServeFile(fs, filename) ==
    IF ~EndsWith(filename, ".pdf") \/ Includes(filename, "..") \/ Includes(filename, "/")
    THEN GetAnswer(filename, 400, <<>>)
    ELSE LET found == {f \in fs : f.path = TempPath(filename)}
         IN  IF found = {} THEN GetAnswer(filename, 404, <<>>)
             ELSE GetAnswer(filename, 200, <<(CHOOSE f \in found : TRUE).pdf>>)

GetFile ==
    /\ \E filename \in RequestedFilenames : lastGet' = ServeFile(files, filename)
    /\ UNCHANGED <<pc, args, invoice, validation, renderInput, storeCalls, response,
                   lifecycle, clock, files, metadataFile, existingData, supabaseVars, cloudVars, httpVars>>

-----------------------------------------------------------------------------
(* The local-file server: CallTool handler *)

\* a tools/call request, drawn from `calls`, reaches the handler
LocalReceive(r, calls, limit) ==
    /\ pc[r] = "idle"
    /\ clock < limit
    /\ clock' = clock + 1
    /\ \E c \in calls :
          args' = [args EXCEPT ![r] =
                      [tool |-> c.tool, id |-> clock', arguments |-> c.arguments]]
    /\ Step(r, "local", <<"Received">>)
    /\ UNCHANGED <<invoice, validation, renderInput, storeCalls, response,
                   localVars, supabaseVars, cloudVars, httpVars>>

\* throw new Error("Tool not found")
LocalUnknownTool(r) ==
    /\ pc[r] = "local"
    /\ args[r].tool # GenerateTool
    /\ Answer(r, ProtocolError(ToolNotFound))
    /\ Step(r, "done", <<"Rejected">>)
    /\ UNCHANGED <<args, invoice, validation, renderInput, storeCalls, clock,
                   localVars, supabaseVars, cloudVars, httpVars>>

\* the handler up to the return on a failed validation
LocalInvalid(r) ==
    LET data == args[r].arguments.invoice
        inv == CalculatedInvoice(data, ParseDate(data.date), ParseDate(data.dueDate))
        v == SafeParse(inv)
    IN  /\ pc[r] = "local"
        /\ args[r].tool = GenerateTool
        /\ ValidationRejects(v)
        /\ invoice' = [invoice EXCEPT ![r] = inv]
        /\ validation' = [validation EXCEPT ![r] = v]
        /\ Answer(r, ErrorResponse(FailedToGenerateWith \o <<"[object Object]">>,
                                 IssuesInFormatted(v.issues)))
        /\ Step(r, "done", <<"Validating", "Invalid", "Rejected">>)
        /\ UNCHANGED <<args, renderInput, storeCalls, clock, localVars, supabaseVars, cloudVars, httpVars>>

\* the handler up to the call of generateInvoicePdf(validatedInvoice, finalOutputPath)
LocalValid(r) ==
    LET data == args[r].arguments.invoice
        inv == CalculatedInvoice(data, ParseDate(data.date), ParseDate(data.dueDate))
        v == SafeParse(inv)
    IN  /\ pc[r] = "local"
        /\ args[r].tool = GenerateTool
        /\ ~ValidationRejects(v)
        /\ invoice' = [invoice EXCEPT ![r] = inv]
        /\ validation' = [validation EXCEPT ![r] = v]
        /\ renderInput' = [renderInput EXCEPT ![r] = Append(@, RenderArgument(inv, v))]
        /\ Step(r, "localRendering",
                <<"Validating", IF v.success THEN "Valid" ELSE "Invalid", "Rendering">>)
        /\ UNCHANGED <<args, storeCalls, response, clock, localVars, supabaseVars, cloudVars, httpVars>>

\* generateInvoicePdf throws: the handler's catch
LocalRenderFail(r) ==
    \E o \in Outcomes :
        /\ pc[r] = "localRendering"
        /\ RendererThrows(o)
        /\ Answer(r, ErrorResponse(FailedToGenerate, {}))
        /\ Step(r, "done", <<"RenderFailed", "Rejected">>)
        /\ UNCHANGED <<args, invoice, validation, renderInput, storeCalls, clock,
                       localVars, supabaseVars, cloudVars, httpVars>>

\* generateInvoicePdf has written the PDF at finalOutputPath;
\* saveInvoiceMetadata reads the metadata file (no file: an empty list)
LocalRenderOk(r) ==
    \E o \in Outcomes :
        LET path == FinalOutputPath(args[r].arguments)
            pdf == PdfOf(args[r].id, renderInput[r][Len(renderInput[r])])
        IN  /\ pc[r] = "localRendering"
            /\ ~RendererThrows(o)
            /\ storeCalls' = [storeCalls EXCEPT ![r] = Append(@, path)]
            /\ files' = IF o = "ok" THEN WriteFile(files, path, pdf) ELSE files
            /\ existingData' = [existingData EXCEPT ![r] =
                    IF IsSome(metadataFile) THEN Get(metadataFile) ELSE <<>>]
            /\ Step(r, "saveMetadata", <<IF o = "ok" THEN "Rendered" ELSE "RenderFailed">>)
            /\ UNCHANGED <<args, invoice, validation, renderInput, response, clock,
                           metadataFile, lastGet, supabaseVars, cloudVars, httpVars>>

\* saveInvoiceMetadata writes the metadata file (an error is only logged);
\* the handler returns its result
LocalSaveMetadata(r) ==
    \E o \in Outcomes :
        LET a == args[r].arguments
            entry == InvoiceMetadata(a, invoice[r], clock)
            list == Append(WithoutInvoice(existingData[r], a.invoice.invoiceNumber), entry)
        IN  /\ pc[r] = "saveMetadata"
            /\ metadataFile' = IF o = "ok" THEN Some(list) ELSE metadataFile
            /\ Answer(r, LocalSuccessResponse(a, invoice[r],
                            DownloadUrl(LocalFilename(a.invoice.invoiceNumber))))
            /\ Step(r, "done", <<"Delivered">>)
            /\ UNCHANGED <<args, invoice, validation, renderInput, storeCalls, clock,
                           files, existingData, lastGet, supabaseVars, cloudVars, httpVars>>

LocalHandler(r) ==
    \/ LocalUnknownTool(r)
    \/ LocalInvalid(r)
    \/ LocalValid(r)
    \/ LocalRenderFail(r)
    \/ LocalRenderOk(r)
    \/ LocalSaveMetadata(r)
    \/ Return(r)

\* the first request of a fresh server, with every shape of invoice
FirstCalls ==
    [tool : {GenerateTool},
     arguments : [invoice : InvoiceData(ItemLists, {"2030-01-31", "garbage"},
                                        {Absent, Some("USD"), Some("XXX")},
                                        {Absent, Some(10)}, CallerAggregates),
                  outputPath : OutputPaths]]

NextLocalFirst ==
    \E r \in {"r1"} :
        \/ LocalReceive(r, FirstCalls, 1)
        \/ LocalReceive(r, OtherCalls, 1)
        \/ LocalHandler(r)

SpecLocalFirst == Init /\ [][NextLocalFirst]_vars

\* requests one after the other and downloads, with a few shapes of invoice
OneItem == <<[description |-> "work", quantity |-> 2, unitPrice |-> 5, total |-> Absent]>>

LocalCalls ==
    [tool : {GenerateTool},
     arguments : [invoice : InvoiceData({OneItem, <<>>}, {"2030-01-31"}, {Some("USD")},
                                        {Some(10)}, {Absent}),
                  outputPath : OutputPaths]]

NextLocal ==
    \/ \E r \in {"r1"} :
          \/ LocalReceive(r, LocalCalls, MaxRequests)
          \/ LocalReceive(r, OtherCalls, MaxRequests)
          \/ LocalHandler(r)
    \/ GetFile

SpecLocal == Init /\ [][NextLocal]_vars

-----------------------------------------------------------------------------
(* The free-text server (src/unnamed/part_006) *)

MaxLines == 2

\* a line of the description, by what the parser's patterns see in it: "item"
\* matches <quantity> <description> @ <price>, "price" holds a $ amount,
\* "text" is any other line
DescriptionLines ==
    [kind : {"item"}, quantity : {0, 2}, unitPrice : {5}]
    \cup [kind : {"price"}, quantity : {0}, unitPrice : {7}]
    \cup [kind : {"text"}, quantity : {0}, unitPrice : {0}]

Descriptions == SeqUpTo(DescriptionLines, MaxLines)

\* the loop over the lines, with `items` and `currentItem`
RECURSIVE ParseLines(_, _, _)
ParseLines(lines, items, currentItem) ==
    IF Len(lines) = 0
    THEN IF IsSome(currentItem) THEN Append(items, Get(currentItem)) ELSE items
    ELSE LET line == Head(lines)
         IN  IF line.kind = "item"
             THEN ParseLines(Tail(lines),
                             IF IsSome(currentItem) THEN Append(items, Get(currentItem))
                             ELSE items,
                             Some([description |-> "work", quantity |-> line.quantity,
                                   unitPrice |-> line.unitPrice, total |-> Absent]))
             ELSE IF line.kind = "price" /\ IsSome(currentItem)
             THEN ParseLines(Tail(lines), items,
                             Some([Get(currentItem) EXCEPT !.unitPrice = line.unitPrice]))
             ELSE ParseLines(Tail(lines), items, currentItem)

\* If no items found, create a default item
DefaultItem ==
    [description |-> "Service rendered", quantity |-> 1, unitPrice |-> 100,
     total |-> Some(100)]

WithDefaultItem(items) == IF Len(items) = 0 THEN <<DefaultItem>> ELSE items

\* parseInvoiceDescription, as far as the handler uses its result
ParseInvoiceDescription(description, now) ==
    [invoiceNumber |-> <<"INV-", ToString(now)>>,
     date |-> ValidDate(now),
     dueDate |-> ValidDate(now + DueDays),
     customer |-> <<"Client Name">>,
     items |-> WithDefaultItem(ParseLines(description, <<>>, Absent)),
     vatRate |-> Some(DefaultVatRate),
     currency |-> Some(DefaultCurrency),
     aggregates |-> Absent]

\* `${serverUrl}/files/${filename}`
ServerUrl == <<"http://localhost:8081">>
TextDownloadUrl(filename) == ServerUrl \o DownloadUrl(filename)

ErrorGenerating == <<"Error generating invoice PDF: ">>

\* a tools/call request with a description reaches the handler
TextReceive(r, calls) ==
    /\ pc[r] = "idle"
    /\ clock < MaxRequests
    /\ clock' = clock + 1
    /\ \E c \in calls :
          args' = [args EXCEPT ![r] =
                      [tool |-> c.tool, id |-> clock', arguments |-> c.arguments]]
    /\ Step(r, "text", <<"Received">>)
    /\ UNCHANGED <<invoice, validation, renderInput, storeCalls, response,
                   localVars, supabaseVars, cloudVars, httpVars>>

\* throw new Error("Tool not found")
TextUnknownTool(r) ==
    /\ pc[r] = "text"
    /\ args[r].tool # GenerateTool
    /\ Answer(r, ProtocolError(ToolNotFound))
    /\ Step(r, "done", <<"Rejected">>)
    /\ UNCHANGED <<args, invoice, validation, renderInput, storeCalls, clock,
                   localVars, supabaseVars, cloudVars, httpVars>>

\* the handler up to the return on a failed validation
TextInvalid(r) ==
    LET data == ParseInvoiceDescription(args[r].arguments.description, clock)
        inv == CalculatedInvoice(data, data.date, data.dueDate)
        v == SafeParse(inv)
    IN  /\ pc[r] = "text"
        /\ args[r].tool = GenerateTool
        /\ ValidationRejects(v)
        /\ invoice' = [invoice EXCEPT ![r] = inv]
        /\ validation' = [validation EXCEPT ![r] = v]
        /\ Answer(r, ErrorResponse(FailedToGenerateWith \o <<"[object Object]">>,
                                 IssuesInFormatted(v.issues)))
        /\ Step(r, "done", <<"Validating", "Invalid", "Rejected">>)
        /\ UNCHANGED <<args, renderInput, storeCalls, clock, localVars, supabaseVars,
                       cloudVars, httpVars>>

\* the handler up to the call of generateInvoicePdf(validatedInvoice, filePath)
TextValid(r) ==
    LET data == ParseInvoiceDescription(args[r].arguments.description, clock)
        inv == CalculatedInvoice(data, data.date, data.dueDate)
        v == SafeParse(inv)
    IN  /\ pc[r] = "text"
        /\ args[r].tool = GenerateTool
        /\ ~ValidationRejects(v)
        /\ invoice' = [invoice EXCEPT ![r] = inv]
        /\ validation' = [validation EXCEPT ![r] = v]
        /\ renderInput' = [renderInput EXCEPT ![r] = Append(@, RenderArgument(inv, v))]
        /\ Step(r, "textRendering",
                <<"Validating", IF v.success THEN "Valid" ELSE "Invalid", "Rendering">>)
        /\ UNCHANGED <<args, storeCalls, response, clock, localVars, supabaseVars,
                       cloudVars, httpVars>>

\* generateInvoicePdf throws: the handler's catch
TextRenderFail(r) ==
    \E o \in Outcomes :
        /\ pc[r] = "textRendering"
        /\ RendererThrows(o)
        /\ Answer(r, ErrorResponse(ErrorGenerating, {}))
        /\ Step(r, "done", <<"RenderFailed", "Rejected">>)
        /\ UNCHANGED <<args, invoice, validation, renderInput, storeCalls, clock,
                       localVars, supabaseVars, cloudVars, httpVars>>

\* generateInvoicePdf has written temp/invoice-<invoiceNumber>.pdf; the result
TextRenderOk(r) ==
    \E o \in Outcomes :
        LET inv == renderInput[r][Len(renderInput[r])]
            filename == LocalFilename(inv.invoiceNumber)
            pdf == PdfOf(args[r].id, inv)
        IN  /\ pc[r] = "textRendering"
            /\ ~RendererThrows(o)
            /\ storeCalls' = [storeCalls EXCEPT ![r] = Append(@, TempPath(filename))]
            /\ files' = IF o = "ok" THEN WriteFile(files, TempPath(filename), pdf)
                        ELSE files
            /\ Answer(r, [outcome |-> "success",
                          invoiceNumber |-> inv.invoiceNumber,
                          clientName |-> inv.customer,
                          currency |-> inv.currency,
                          total |-> ToFixed2(inv.total),
                          locator |-> TextDownloadUrl(filename)])
            /\ Step(r, "done", <<IF o = "ok" THEN "Rendered" ELSE "RenderFailed",
                                 "Delivered">>)
            /\ UNCHANGED <<args, invoice, validation, renderInput, clock,
                           metadataFile, existingData, lastGet, supabaseVars, cloudVars, httpVars>>

TextCalls == [tool : {GenerateTool}, arguments : [description : Descriptions]]

NextText ==
    \E r \in {"r1"} :
        \/ TextReceive(r, TextCalls)
        \/ TextReceive(r, OtherCalls)
        \/ TextUnknownTool(r)
        \/ TextInvalid(r)
        \/ TextValid(r)
        \/ TextRenderFail(r)
        \/ TextRenderOk(r)
        \/ Return(r)

SpecText == Init /\ [][NextText]_vars

-----------------------------------------------------------------------------
(* cloud-storage.ts: the storage providers *)

\* createStorageProvider(): CLOUD_STORAGE_PROVIDER
Providers == {"simple", "supabase"}

BaseUrl == <<"https://your-storage.com">>
SupabaseUrl == <<"https://supabase">>

\* what fetch(uploadUrl, ...) may do: the store keeps the bytes and answers
\* with or without a downloadUrl, answers with an error status, or fetch rejects
FetchOutcomes == {"stored-with-url", "stored", "not-ok", "rejected"}

Stored(fetched) == fetched \in {"stored-with-url", "stored"}

Returned(url) == [kind |-> "returned", url |-> url]
Thrown == [kind |-> "thrown", url |-> <<>>]

\* SimpleCloudStorage.uploadFile
SimpleUploadFile(filename, fetched) ==
    IF fetched = "stored-with-url" THEN Returned(<<"(downloadUrl of the store)">>)
    ELSE IF fetched = "stored" THEN Returned(BaseUrl \o <<"/files/">> \o filename)
    ELSE Returned(BaseUrl \o <<"/temp/">> \o filename)

\* SupabaseStorage.uploadFile
SupabaseUploadFile(filename, fetched) ==
    IF Stored(fetched)
    THEN Returned(SupabaseUrl \o <<"/storage/v1/object/public/", StorageBucket, "/">>
                    \o filename)
    ELSE Thrown

UploadFile(provider, filename, fetched) ==
    IF provider = "simple" THEN SimpleUploadFile(filename, fetched)
    ELSE SupabaseUploadFile(filename, fetched)

\* the rendered PDFs handed to uploadToCloudStorage
CloudUploads ==
    {[filename |-> LocalFilename(n), buffer |-> PdfOf(i, [invoiceNumber |-> n])] :
        n \in InvoiceNumbers, i \in 1..MaxRequests}

\* uploadToCloudStorage(buffer, filename)
UploadToCloudStorage ==
    /\ \E provider \in Providers, u \in CloudUploads, fetched \in FetchOutcomes :
          /\ cloud' = IF Stored(fetched) THEN Upsert(cloud, u.filename, u.buffer)
                      ELSE cloud
          /\ uploaded' = [provider |-> provider, filename |-> u.filename,
                          buffer |-> u.buffer, fetched |-> fetched,
                          result |-> UploadFile(provider, u.filename, fetched)]
    /\ UNCHANGED <<pc, args, invoice, validation, renderInput, storeCalls, response,
                   lifecycle, clock, supabaseVars, localVars, httpVars>>

NextCloud == UploadToCloudStorage

SpecCloud == Init /\ [][NextCloud]_vars

-----------------------------------------------------------------------------
(* Vocabulary of the properties *)

Range(f) == {f[i] : i \in DOMAIN f}
Last(q) == q[Len(q)]

IsGenerate(r) == args[r].tool = GenerateTool
RequestItems(r) == args[r].arguments.items
Assembled(r) == invoice[r].invoiceNumber # <<>>
Answered(r) == pc[r] = "done"

\* every output item carries quantity * unitPrice of the input item at its place
Recomputed(input, output) ==
    /\ Len(output) = Len(input)
    /\ \A i \in 1..Len(input) :
          /\ output[i].quantity = input[i].quantity
          /\ output[i].unitPrice = input[i].unitPrice
          /\ output[i].total = input[i].quantity * input[i].unitPrice

HasWrongCallerTotal(items) ==
    \E i \in 1..Len(items) :
        /\ IsSome(items[i].total)
        /\ Get(items[i].total) # items[i].quantity * items[i].unitPrice

HasBadItem(items) ==
    \E i \in 1..Len(items) : items[i].unitPrice < 0 \/ items[i].quantity <= 0

HasGoodItem(items) ==
    \E i \in 1..Len(items) : items[i].unitPrice >= 0 /\ items[i].quantity > 0

StoredFor(r) == {o \in bucket : o.pdf.request = args[r].id}

-----------------------------------------------------------------------------
(* C1: in the invoice that is assembled, validated and rendered, every item's
   total is quantity * unitPrice of that item of the request; a total the
   caller put on the item is not in it. *)
C1_ItemTotalsRecomputed ==
    \A r \in Reqs :
        IsGenerate(r) =>
            /\ Assembled(r) => Recomputed(RequestItems(r), invoice[r].items)
            /\ validation[r].success =>
                    Recomputed(RequestItems(r), validation[r].data.items)
            /\ \A k \in 1..Len(renderInput[r]) :
                    Recomputed(RequestItems(r), renderInput[r][k].items)

\* an invoice whose item carried a wrong total has been rendered and delivered
C1_Witness ==
    \E r \in Reqs :
        /\ IsGenerate(r)
        /\ HasWrongCallerTotal(RequestItems(r))
        /\ Len(renderInput[r]) = 1
        /\ Answered(r)
        /\ response[r].outcome = "success"

(* C2: in every invoice that reaches validation, subtotal is the sum of the
   recomputed item totals, vatAmount is subtotal * vatRate and total is
   subtotal + vatAmount; the subtotal, vatAmount and total the caller supplied
   are overwritten and never used. *)
LocalData(r) == args[r].arguments.invoice

RECURSIVE SumOfProducts(_)
SumOfProducts(items) ==
    IF Len(items) = 0 THEN 0
    ELSE items[1].quantity * items[1].unitPrice + SumOfProducts(Tail(items))

\* with no vatRate in the request, subtotal * vatRate and the total are NaN
AggregatesOf(inv, items, vatRate) ==
    /\ inv.subtotal = SumOfProducts(items)
    /\ IF IsSome(vatRate)
       THEN /\ inv.nan = {}
            /\ inv.vatAmount = SumOfProducts(items) * Get(vatRate)
            /\ inv.total = 100 * SumOfProducts(items)
                              + SumOfProducts(items) * Get(vatRate)
       ELSE {"vatAmount", "total"} \subseteq inv.nan

C2_AggregatesRecomputed ==
    \A r \in Reqs :
        (IsGenerate(r) /\ Assembled(r)) =>
            /\ AggregatesOf(invoice[r], LocalData(r).items, LocalData(r).vatRate)
            /\ validation[r].success =>
                   AggregatesOf(validation[r].data, LocalData(r).items, LocalData(r).vatRate)
            /\ \A i \in 1..Len(renderInput[r]) :
                   AggregatesOf(renderInput[r][i], LocalData(r).items, LocalData(r).vatRate)
            /\ response[r].outcome = "success" =>
                   response[r].total = ToFixed2(110 * SumOfProducts(LocalData(r).items))

\* two items of 2 x 5 at 10% VAT, sent with subtotal 1, vatAmount 2, total 3,
\* are delivered as 20, 2.00 and 22.00
C2_Witness ==
    \E r \in Reqs :
        /\ IsGenerate(r)
        /\ Answered(r)
        /\ response[r].outcome = "success"
        /\ IsSome(LocalData(r).aggregates)
        /\ Len(LocalData(r).items) = 2
        /\ HasWrongCallerTotal(LocalData(r).items)
        /\ invoice[r].subtotal = 20
        /\ invoice[r].vatAmount = 200
        /\ invoice[r].total = 2200
        /\ response[r].total = [units |-> 22, cents |-> 0]

(* C3: the renderer is called only after InvoiceSchema validation of the
   assembled invoice succeeded in the same request, and with the validated
   record. *)
C3_RenderOnlyValidated ==
    \A r \in Reqs :
        \A k \in 1..Len(renderInput[r]) :
            /\ validation[r].success
            /\ validation[r].issues = {}
            /\ renderInput[r][k] = validation[r].data
            /\ Assembled(r)
            /\ "Valid" \in Range(lifecycle[r])

\* the renderer has been called
C3_Witness ==
    \E r \in Reqs : pc[r] = "rendering" /\ Len(renderInput[r]) = 1

(* C4: a generation request whose item list is empty is always rejected with
   a validation error: the renderer is never called, no PDF is stored and no
   locator is returned for it. *)
Description(r) == args[r].arguments.description

NoItemsFound(description) == Len(ParseLines(description, <<>>, Absent)) = 0

C4_EmptyItemsRejected ==
    \A r \in Reqs :
        (IsGenerate(r) /\ NoItemsFound(Description(r))) =>
            /\ renderInput[r] = <<>>
            /\ storeCalls[r] = <<>>
            /\ Answered(r) =>
                   /\ response[r].outcome = "error"
                   /\ <<"items">> \in response[r].issues

(* C5: a request with an item of unitPrice < 0 or quantity <= 0 is rejected
   before rendering, whatever its other items and fields are. *)
C5_BadItemRejected ==
    \A r \in Reqs :
        (IsGenerate(r) /\ HasBadItem(RequestItems(r))) =>
            /\ renderInput[r] = <<>>
            /\ storeCalls[r] = <<>>
            /\ StoredFor(r) = {}
            /\ response[r].outcome # "success"
            /\ Answered(r) =>
                    /\ response[r].outcome \in {"error", "protocol-error"}
                    /\ Last(lifecycle[r]) = "Rejected"
                    /\ "Rendering" \notin Range(lifecycle[r])

\* a request with one good and one bad item, all else valid, was rejected by
\* validation
C5_Witness ==
    \E r \in Reqs :
        /\ IsGenerate(r)
        /\ HasBadItem(RequestItems(r))
        /\ HasGoodItem(RequestItems(r))
        /\ Assembled(r)
        /\ invoice[r].currency \in Currencies
        /\ invoice[r].dueDate.valid
        /\ Answered(r)
        /\ response[r].outcome = "error"
        /\ response[r].message = InvalidInvoiceMessage

(* C6: the lifecycle of a generation request. *)
Transitions(q) == {<<q[i], q[i + 1]>> : i \in 1..(Len(q) - 1)}

SpecTransitions ==
    {<<"Received", "Validating">>, <<"Validating", "Invalid">>,
     <<"Invalid", "Rejected">>, <<"Validating", "Valid">>,
     <<"Valid", "Rendering">>, <<"Rendering", "RenderFailed">>,
     <<"RenderFailed", "Rejected">>, <<"Rendering", "Rendered">>,
     <<"Rendered", "Delivered">>}

CodeTransitions ==
    SpecTransitions \cup {<<"Received", "Rejected">>, <<"Rendered", "Rejected">>}

Terminal == {"Rejected", "Delivered"}

FollowsLifecycle(r, allowed) ==
    LET q == lifecycle[r]
    IN  /\ Len(q) > 0 => q[1] = "Received"
        /\ Transitions(q) \subseteq allowed
        /\ \A i \in 1..(Len(q) - 1) : q[i] \notin Terminal
        /\ Answered(r) <=> (Len(q) > 0 /\ Last(q) \in Terminal)
        /\ "Delivered" \in Range(q) => {"Valid", "Rendered"} \subseteq Range(q)

\* C6 as the spec states it: only the transitions of the spec's state machine
C6_SpecLifecycle ==
    \A r \in Reqs : IsGenerate(r) => FollowsLifecycle(r, SpecTransitions)

(* C6, amended: a generation request follows only the transitions of the
   spec's state machine or Received -> Rejected (storage initialisation
   failed) or Rendered -> Rejected (the store failed); it is answered exactly
   when it is in Rejected or Delivered, which it reaches once, and a Delivered
   request went through Valid and Rendered. *)
C6_CodeLifecycle ==
    \A r \in Reqs : IsGenerate(r) => FollowsLifecycle(r, CodeTransitions)

\* a rendered invoice whose store failed: Rendered -> Rejected
C6_Witness ==
    \E r \in Reqs :
        /\ IsGenerate(r)
        /\ Answered(r)
        /\ lifecycle[r] =
             <<"Received", "Validating", "Valid", "Rendering", "Rendered", "Rejected">>

C8_StoreFailureReported ==
    (uploaded.provider # "none" /\ ~Stored(uploaded.fetched)) =>
        /\ uploaded.result.kind = "thrown"
        /\ uploaded.result.url = <<>>

(* C9: whenever the local-file server reports success with the download URL
   /files/<name>, GET /files/<name> answers 200 with the PDF that this call
   produced, also when the caller supplied outputPath. *)
LocatorFilename(locator) == SubSeq(locator, 2, Len(locator))

C9_DownloadUrlServesPdf ==
    \A r \in Reqs :
        (IsGenerate(r) /\ Answered(r) /\ response[r].outcome = "success") =>
            LET got == ServeFile(files, LocatorFilename(response[r].locator))
            IN  /\ response[r].locator[1] = "/files/"
                /\ got.status = 200
                /\ got.body = <<PdfOf(args[r].id, Last(renderInput[r]))>>

(* C10: the name under which a generated PDF is stored is exactly
   invoice-<invoiceNumber>.pdf. *)
C10_StoredNameIsInvoiceNumber ==
    \A r \in Reqs :
        \A k \in 1..Len(storeCalls[r]) :
            storeCalls[r][k] =
                <<"invoice-">> \o args[r].arguments.invoiceNumber \o <<".pdf">>

(* C11: regenerating an invoice number overwrites the earlier stored PDF:
   the store holds at most one PDF per invoice number, the one generated
   last. *)
C11_OnePdfPerInvoiceNumber ==
    \A o1 \in bucket, o2 \in bucket :
        o1.pdf.invoiceNumber = o2.pdf.invoiceNumber => o1 = o2

(* C12: a request that omits currency is computed, validated and reported
   with currency GBP, one that omits vatRate is computed with vatRate 0.20,
   and a supplied value is never replaced by the default. *)
C12_DefaultsApplied ==
    \A r \in Reqs :
        (IsGenerate(r) /\ Assembled(r)) =>
            /\ IF IsSome(LocalData(r).currency)
               THEN invoice[r].currency = Get(LocalData(r).currency)
               ELSE invoice[r].currency = DefaultCurrency
            /\ IF IsSome(LocalData(r).vatRate)
               THEN invoice[r].vatRate = Get(LocalData(r).vatRate)
               ELSE /\ "vatRate" \notin invoice[r].nan
                    /\ invoice[r].vatRate = DefaultVatRate
                    /\ invoice[r].vatAmount = invoice[r].subtotal * DefaultVatRate
            /\ response[r].outcome = "success" =>
                   response[r].currency = invoice[r].currency

-----------------------------------------------------------------------------
(* The Supabase server on the items of Scenario A *)

ScenarioItems ==
    <<[description |-> "Web development", quantity |-> 10, unitPrice |-> 75,
       total |-> Absent],
      [description |-> "Logo design", quantity |-> 5, unitPrice |-> 60,
       total |-> Absent]>>

ScenarioCalls ==
    [tool : {GenerateTool},
     arguments : [invoiceNumber : InvoiceNumbers, clientName : {<<"Acme">>},
                  items : {ScenarioItems}, currency : CurrencyInputs,
                  vatRate : {Absent, Some(20), Some(10)},
                  dueDate : DueDateInputs]]

NextScenario ==
    \E r \in {"r1"} :
        \/ Receive(r, ScenarioCalls)
        \/ Receive(r, OtherCalls)
        \/ AlreadyInitialized(r)
        \/ StartInitialize(r)
        \/ InitializeOk(r)
        \/ InitializeFail(r)
        \/ HandleUnknownTool(r)
        \/ HandleInvalid(r)
        \/ HandleValid(r)
        \/ RenderFail(r)
        \/ RenderOk(r)
        \/ UploadFail(r)
        \/ UploadOk(r)
        \/ Return(r)

SpecScenario == Init /\ [][NextScenario]_vars

(* C13: for the items (Web development, 10, 75) and (Logo design, 5, 60) and
   vatRate 0.20 the invoice has subtotal 1050.00, vatAmount 210.00 and total
   1260.00, and the total reported to the caller is 1260.00. *)
C13_ScenarioA ==
    \A r \in Reqs :
        (/\ IsGenerate(r)
         /\ Assembled(r)
         /\ RequestItems(r) = ScenarioItems
         /\ VatRateOf(args[r].arguments) = 20) =>
            /\ invoice[r].subtotal = 1050
            /\ invoice[r].vatAmount = 21000
            /\ invoice[r].total = 126000
            /\ \A k \in 1..Len(renderInput[r]) :
                  /\ renderInput[r][k].subtotal = 1050
                  /\ renderInput[r][k].vatAmount = 21000
                  /\ renderInput[r][k].total = 126000
            /\ response[r].outcome = "success" =>
                  response[r].total = [units |-> 1260, cents |-> 0]

\* Scenario A with vatRate 0.20 given in the request has been delivered
C13_Witness ==
    \E r \in Reqs :
        /\ IsGenerate(r)
        /\ RequestItems(r) = ScenarioItems
        /\ args[r].arguments.vatRate = Some(20)
        /\ Answered(r)
        /\ response[r].outcome = "success"
        /\ response[r].total = [units |-> 1260, cents |-> 0]

(* C14: when validation fails, the failure text returned to the caller names
   every violated field: the fields reported are exactly the fields of the
   invoice that violate the schema. *)
C14_AllViolationsReported ==
    \A r \in Reqs :
        (/\ IsGenerate(r)
         /\ Answered(r)
         /\ Assembled(r)
         /\ ~validation[r].success) =>
            /\ response[r].outcome = "error"
            /\ response[r].issues = SchemaIssues(invoice[r])
            /\ response[r].issues # {}

(* C15: a failure of one request (validation, rendering, storage or storage
   initialisation) affects only that request: it leaves nothing in the store
   and no initialisation flag behind, the server goes on accepting requests,
   and no step of a later request is blocked, so that a later valid request
   can still be delivered. *)
C15_FailuresAreIsolated ==
    \A r \in {"r1"} :
        /\ (Answered(r) /\ response[r].outcome # "success") => StoredFor(r) = {}
        /\ (Answered(r) /\ response[r] = ProtocolError(InitFailedMessage)) =>
                ~initialized
        /\ Answered(r) => ENABLED Return(r)
        /\ (pc[r] = "idle" /\ clock < MaxRequests) =>
                ENABLED Receive(r, GenerateCalls)
        /\ pc[r] = "ensureInitialized" =>
                ENABLED (AlreadyInitialized(r) \/ StartInitialize(r))
        /\ pc[r] = "initializing" => ENABLED InitializeOk(r)
        /\ (/\ pc[r] = "handle"
            /\ IsGenerate(r)
            /\ SafeParse(BuildInvoice(args[r].arguments, clock)).success) =>
                ENABLED HandleValid(r)
        /\ pc[r] = "rendering" => ENABLED RenderOk(r)
        /\ pc[r] = "uploading" => ENABLED UploadOk(r)

\* a request is delivered after every earlier request of the session failed:
\* the store holds its PDF only
C15_Witness ==
    \E r \in Reqs :
        /\ IsGenerate(r)
        /\ args[r].id > 1
        /\ Answered(r)
        /\ response[r].outcome = "success"
        /\ Last(lifecycle[r]) = "Delivered"
        /\ bucket # {}
        /\ \A o \in bucket : o.pdf.request = args[r].id

-----------------------------------------------------------------------------
(* The local-file server with two requests in flight at once *)

NextLocalConcurrent ==
    \E r \in Reqs :
        \/ LocalReceive(r, LocalCalls, MaxRequests)
        \/ LocalReceive(r, OtherCalls, MaxRequests)
        \/ LocalHandler(r)

SpecLocalConcurrent == Init /\ [][NextLocalConcurrent]_vars

(* C16: generation requests share no mutable state: in any interleaving each
   request's outcome, totals and result are those of the request run alone,
   and no request reads a value written by another request. *)
RunAlone(r) ==
    /\ ~Answered(r) => response[r] = NoResponse
    /\ Assembled(r) =>
          /\ invoice[r].invoiceNumber = LocalData(r).invoiceNumber
          /\ AggregatesOf(invoice[r], LocalData(r).items, LocalData(r).vatRate)
          /\ validation[r].success <=> SchemaIssues(invoice[r]) = {}
    /\ \A k \in 1..Len(renderInput[r]) : renderInput[r][k] = invoice[r]
    /\ \A k \in 1..Len(storeCalls[r]) :
          storeCalls[r][k] = FinalOutputPath(args[r].arguments)
    /\ (Answered(r) /\ response[r].outcome = "success") =>
          /\ validation[r].success
          /\ response[r].invoiceNumber = LocalData(r).invoiceNumber
          /\ response[r].clientName = LocalData(r).customer
          /\ response[r].total = ToFixed2(110 * SumOfProducts(LocalData(r).items))
          /\ response[r].locator =
                <<"/files/", "invoice-">> \o LocalData(r).invoiceNumber \o <<".pdf">>
    /\ (Answered(r) /\ response[r].outcome = "error") =>
          (validation[r].success <=> Len(renderInput[r]) = 1)

ReadsNothingOfOthers(r) == existingData[r] = <<>>

\* C16 as stated
C16_NoSharedState ==
    \A r \in Reqs : IsGenerate(r) => (RunAlone(r) /\ ReadsNothingOfOthers(r))

(* C16, amended: in any interleaving of concurrent generation requests each
   request's invoice, totals, validation outcome and caller-visible result
   are those of the request run alone; requests do read state written by
   other requests (saveInvoiceMetadata reads the metadata file), but such a
   value does not enter the invoice, the totals or the result. *)
C16_ResultsAsIfAlone ==
    \A r \in Reqs : IsGenerate(r) => RunAlone(r)

\* two requests were in flight together, both were delivered, and the second
\* read the metadata entry written by the first
C16_Witness ==
    /\ \A r \in Reqs :
          IsGenerate(r) /\ Answered(r) /\ response[r].outcome = "success"
    /\ existingData["r2"] # <<>>
    /\ existingData["r1"] = <<>>

-----------------------------------------------------------------------------
(* The Supabase server with two requests of one session in flight at once *)

SessionCalls ==
    [tool : {GenerateTool},
     arguments : [invoiceNumber : InvoiceNumbers, clientName : {<<"Acme">>},
                  items : {OneItem}, currency : {Absent}, vatRate : {Absent},
                  dueDate : DueDateInputs]]

NextConcurrent ==
    \E r \in Reqs :
        \/ Receive(r, SessionCalls)
        \/ Receive(r, OtherCalls)
        \/ AlreadyInitialized(r)
        \/ StartInitialize(r)
        \/ InitializeOk(r)
        \/ InitializeFail(r)
        \/ HandleUnknownTool(r)
        \/ HandleInvalid(r)
        \/ HandleValid(r)
        \/ RenderFail(r)
        \/ RenderOk(r)
        \/ UploadFail(r)
        \/ UploadOk(r)
        \/ Return(r)

SpecConcurrent == Init /\ [][NextConcurrent]_vars

(* C17: the calculator/validator step is a pure function of the request
   input: two requests with identical input produce identical invoice
   records, date and dueDate included, or identical rejections, whenever
   they are processed. *)
SameInput(r1, r2) ==
    /\ IsGenerate(r1) /\ IsGenerate(r2)
    /\ Assembled(r1) /\ Assembled(r2)
    /\ args[r1].arguments = args[r2].arguments

WithoutDates(inv) == [inv EXCEPT !.date = InvalidDate, !.dueDate = InvalidDate]

-----------------------------------------------------------------------------
(* The Supabase server computing the totals of the same input twice *)

TotalsCalls ==
    [tool : {GenerateTool},
     arguments : [invoiceNumber : {<<"A">>}, clientName : {<<"Acme">>},
                  items : ItemLists, currency : {Absent},
                  vatRate : VatRateInputs, dueDate : {Absent}]]

\* the caller sends the request of `first` once more
Resubmit(first, r) ==
    /\ first # r
    /\ pc[r] = "idle"
    /\ pc[first] = "done"
    /\ args[first].tool = GenerateTool
    /\ clock < MaxRequests
    /\ clock' = clock + 1
    /\ args' = [args EXCEPT ![r] = [args[first] EXCEPT !.id = clock']]
    /\ Step(r, "ensureInitialized", <<"Received">>)
    /\ UNCHANGED <<invoice, validation, renderInput, storeCalls, response,
                   initialized, bucket, localVars, cloudVars, httpVars>>

NextTwice ==
    \/ Receive("r1", TotalsCalls)
    \/ Resubmit("r1", "r2")
    \/ \E r \in Reqs :
          \/ AlreadyInitialized(r)
          \/ StartInitialize(r)
          \/ InitializeOk(r)
          \/ InitializeFail(r)
          \/ HandleInvalid(r)
          \/ HandleValid(r)
          \/ RenderFail(r)
          \/ RenderOk(r)
          \/ UploadFail(r)
          \/ UploadOk(r)
          \/ Return(r)

SpecTwice == Init /\ [][NextTwice]_vars

(* C18: computing subtotal, vatAmount and total twice from the same items
   and vatRate yields identical values both times. *)
SameItemsAndRate(r1, r2) ==
    /\ IsGenerate(r1) /\ IsGenerate(r2)
    /\ Assembled(r1) /\ Assembled(r2)
    /\ RequestItems(r1) = RequestItems(r2)
    /\ args[r1].arguments.vatRate = args[r2].arguments.vatRate

-----------------------------------------------------------------------------
(* The local-file server without metadata (src/unnamed/part_003): its handler
   is that of part_004 up to the renderer's return *)

\* the text of the handler's result: invoice number, total and download URL
PlainSuccessResponse(a, inv, url) ==
    [outcome |-> "success",
     invoiceNumber |-> a.invoice.invoiceNumber,
     clientName |-> <<>>,
     currency |-> CurrencyOrDefault(a.invoice),
     total |-> ToFixed2(inv.total),
     locator |-> url]

\* generateInvoicePdf has written the PDF at finalOutputPath; the result
PlainRenderOk(r) ==
    \E o \in Outcomes :
        LET a == args[r].arguments
            path == FinalOutputPath(a)
            pdf == PdfOf(args[r].id, renderInput[r][Len(renderInput[r])])
        IN  /\ pc[r] = "localRendering"
            /\ ~RendererThrows(o)
            /\ storeCalls' = [storeCalls EXCEPT ![r] = Append(@, path)]
            /\ files' = IF o = "ok" THEN WriteFile(files, path, pdf) ELSE files
            /\ Answer(r, PlainSuccessResponse(a, invoice[r],
                            DownloadUrl(LocalFilename(a.invoice.invoiceNumber))))
            /\ Step(r, "done", <<IF o = "ok" THEN "Rendered" ELSE "RenderFailed",
                                 "Delivered">>)
            /\ UNCHANGED <<args, invoice, validation, renderInput, clock,
                           metadataFile, existingData, lastGet, supabaseVars, cloudVars, httpVars>>

NextPlain ==
    \E r \in {"r1"} :
        \/ LocalReceive(r, LocalCalls, MaxRequests)
        \/ LocalReceive(r, OtherCalls, MaxRequests)
        \/ LocalUnknownTool(r)
        \/ LocalInvalid(r)
        \/ LocalValid(r)
        \/ LocalRenderFail(r)
        \/ PlainRenderOk(r)
        \/ Return(r)

SpecPlain == Init /\ [][NextPlain]_vars

(* C19: every request that ends Delivered returns to the caller the request's
   invoice number, the client name, the computed total with the currency and
   the locator of the request's PDF. *)
C19_CallerVisibleResult ==
    \A r \in Reqs :
        (IsGenerate(r) /\ Answered(r) /\ Last(lifecycle[r]) = "Delivered") =>
            /\ response[r].outcome = "success"
            /\ response[r].invoiceNumber = LocalData(r).invoiceNumber
            /\ response[r].clientName = LocalData(r).customer
            /\ response[r].total = ToFixed2(invoice[r].total)
            /\ response[r].currency = invoice[r].currency
            /\ response[r].locator = DownloadUrl(LocalFilename(LocalData(r).invoiceNumber))

(* C20: within one generation request, validation, rendering and the store
   operation are each attempted at most once; a failed attempt is reported
   to the caller and is never repeated. *)
Count(q, s) == Cardinality({i \in 1..Len(q) : q[i] = s})

-----------------------------------------------------------------------------
(* The free-text server (src/unnamed/part_006): GET /files/:filename *)

\* process.cwd(), the parent of the temp directory
AppDir == <<"/app/">>

\* what the image installs next to temp/ (Dockerfile: COPY package*.json ./);
\* request 0 marks content that no request wrote
AppFiles ==
    {[path |-> AppDir \o <<"package.json">>,
      pdf |-> [request |-> 0, invoiceNumber |-> <<"package.json">>]]}

\* path.join(tempDir, filename): a leading "../" leaves the temp directory
PathJoin(filename) ==
    IF Len(filename) >= 2 /\ filename[1] = ".." /\ filename[2] = "/"
    THEN AppDir \o SubSeq(filename, 3, Len(filename))
    ELSE TempPath(filename)

\* the filenames a client of the free-text server asks for; Express decodes
\* %2F in a route parameter, so "../package.json" is a possible `filename`
TextRequestedFilenames ==
    {LocalFilename(<<"INV-", ToString(n)>>) : n \in 1..MaxRequests}
    \cup {<<"..", "/", "package.json">>, <<"notes", ".txt">>}

\* app.get('/files/:filename') of part_006: existsSync, then res.download
TextServeFile(fs, filename) ==
    LET found == {f \in fs : f.path = PathJoin(filename)}
    IN  IF found = {} THEN GetAnswer(filename, 404, <<>>)
        ELSE GetAnswer(filename, 200, <<(CHOOSE f \in found : TRUE).pdf>>)

TextGetFile ==
    /\ \E filename \in TextRequestedFilenames :
          lastGet' = TextServeFile(files \cup AppFiles, filename)
    /\ UNCHANGED <<pc, args, invoice, validation, renderInput, storeCalls, response,
                   lifecycle, clock, files, metadataFile, existingData, supabaseVars, cloudVars, httpVars>>

NextTextFiles ==
    \/ NextText
    \/ TextGetFile

SpecTextFiles == Init /\ [][NextTextFiles]_vars

(* C21: GET /files/{filename} serves a file only when the filename ends in
   .pdf and contains neither '..' nor '/'; every other filename is answered
   with an error and no file is read. *)
C21_OnlyPdfInTempServed ==
    lastGet.status # 0 =>
        IF /\ EndsWith(lastGet.filename, ".pdf")
           /\ ~Includes(lastGet.filename, "..")
           /\ ~Includes(lastGet.filename, "/")
        THEN lastGet.status \in {200, 404}
        ELSE lastGet.status >= 400 /\ lastGet.body = <<>>

-----------------------------------------------------------------------------
(* The local-file server: the /invoices endpoints (src/unnamed/part_004) *)

Statuses == {"generated", "sent", "paid"}

\* req.body.status: a known status, another word, or no status at all
StatusInputs == Statuses \cup {"void", Undefined}

\* getInvoiceMetadata(): readFile and JSON.parse; any error gives []
GetInvoiceMetadata(file, o) ==
    IF o = "ok" /\ IsSome(file) THEN Get(file) ELSE <<>>

\* metadata.find(inv => inv.invoiceNumber === n): <<>> or <<the first match>>
Find(list, n) ==
    LET found == {i \in 1..Len(list) : list[i].invoiceNumber = n}
    IN  IF found = {} THEN Absent
        ELSE Some(list[CHOOSE i \in found : \A j \in found : i <= j])

\* a status written on every entry of the list
WithStatusOnAll(list, n, status) ==
    [i \in 1..Len(list) |-> [list[i] EXCEPT !.status = status]]

\* metadata[invoiceIndex].status = status
WithStatus(list, n, status) ==
    LET found == {i \in 1..Len(list) : list[i].invoiceNumber = n}
        invoiceIndex == CHOOSE i \in found : \A j \in found : i <= j
    IN  [list EXCEPT ![invoiceIndex].status = status]

\* the request (operation, invoice number, req.body.status) and its answer
RestAnswer(op, n, status, code, body) ==
    [op |-> op, invoiceNumber |-> n, status |-> status, code |-> code, body |-> body]

\* app.get('/invoices/:invoiceNumber'): the answer, given the metadata file
\* and how reading it went
GetInvoice(file, n, o) ==
    LET metadata == Find(GetInvoiceMetadata(file, o), n)
    IN  RestAnswer("get", n, "none", IF IsSome(metadata) THEN 200 ELSE 404, metadata)

\* app.patch('/invoices/:invoiceNumber/status'), up to `await writeFile`
PatchStatus ==
    /\ rest = NoRest
    /\ \E n \in InvoiceNumbers, status \in StatusInputs, o \in Outcomes :
          LET metadata == GetInvoiceMetadata(metadataFile, o)
          IN  IF status \notin Statuses
              THEN /\ lastRest' = RestAnswer("patch", n, status, 400, <<>>)
                   /\ rest' = rest
              ELSE IF ~IsSome(Find(metadata, n))
              THEN /\ lastRest' = RestAnswer("patch", n, status, 404, <<>>)
                   /\ rest' = rest
              ELSE /\ rest' = [op |-> "patch", invoiceNumber |-> n, status |-> status,
                               metadata |-> WithStatus(metadata, n, status)]
                   /\ lastRest' = lastRest
    /\ UNCHANGED <<pc, args, invoice, validation, renderInput, storeCalls, response,
                   lifecycle, clock, supabaseVars, localVars, cloudVars,
                   sessionVars, configVars, authVars, metadataVars>>

\* the PATCH handler from `await writeFile` on
PatchWrite ==
    /\ rest.op = "patch"
    /\ \E o \in Outcomes :
          IF o = "ok"
          THEN /\ metadataFile' = Some(rest.metadata)
               /\ lastRest' = RestAnswer("patch", rest.invoiceNumber, rest.status, 200,
                                         Find(rest.metadata, rest.invoiceNumber))
          ELSE /\ metadataFile' = metadataFile
               /\ lastRest' = RestAnswer("patch", rest.invoiceNumber, rest.status, 500, <<>>)
    /\ rest' = NoRest
    /\ UNCHANGED <<pc, args, invoice, validation, renderInput, storeCalls, response,
                   lifecycle, clock, files, existingData, lastGet, supabaseVars, cloudVars,
                   sessionVars, configVars, authVars, metadataVars>>

\* app.delete('/invoices/:invoiceNumber'), up to `await unlink`
DeleteInvoice ==
    /\ rest = NoRest
    /\ \E n \in InvoiceNumbers, o \in Outcomes :
          LET metadata == GetInvoiceMetadata(metadataFile, o)
          IN  IF ~IsSome(Find(metadata, n))
              THEN /\ lastRest' = RestAnswer("delete", n, "none", 404, <<>>)
                   /\ rest' = rest
              ELSE /\ rest' = [op |-> "unlink", invoiceNumber |-> n, status |-> "none",
                               metadata |-> metadata]
                   /\ lastRest' = lastRest
    /\ UNCHANGED <<pc, args, invoice, validation, renderInput, storeCalls, response,
                   lifecycle, clock, supabaseVars, localVars, cloudVars,
                   sessionVars, configVars, authVars, metadataVars>>

\* unlink(join(cwd, 'temp', invoice.filename)); an error is only logged
DeleteUnlink ==
    /\ rest.op = "unlink"
    /\ \E o \in Outcomes :
          LET invoiceFound == Get(Find(rest.metadata, rest.invoiceNumber))
              filePath == TempPath(invoiceFound.filename)
          IN  files' = IF o = "ok" THEN {f \in files : f.path # filePath} ELSE files
    /\ rest' = [rest EXCEPT !.op = "deleteWrite"]
    /\ UNCHANGED <<pc, args, invoice, validation, renderInput, storeCalls, response,
                   lifecycle, clock, metadataFile, existingData, lastGet, lastRest,
                   supabaseVars, cloudVars, sessionVars, configVars, authVars, metadataVars>>

\* the DELETE handler from `await writeFile` on
DeleteWrite ==
    /\ rest.op = "deleteWrite"
    /\ \E o \in Outcomes :
          IF o = "ok"
          THEN /\ metadataFile' = Some(WithoutInvoice(rest.metadata, rest.invoiceNumber))
               /\ lastRest' = RestAnswer("delete", rest.invoiceNumber, "none", 200, <<>>)
          ELSE /\ metadataFile' = metadataFile
               /\ lastRest' = RestAnswer("delete", rest.invoiceNumber, "none", 500, <<>>)
    /\ rest' = NoRest
    /\ UNCHANGED <<pc, args, invoice, validation, renderInput, storeCalls, response,
                   lifecycle, clock, files, existingData, lastGet, supabaseVars, cloudVars,
                   sessionVars, configVars, authVars, metadataVars>>

\* generation requests for the /invoices endpoints to work on
RestCalls ==
    [tool : {GenerateTool},
     arguments : [invoice : InvoiceData({OneItem, <<>>}, {"2030-01-31"}, {Some("USD")},
                                        {Some(10)}, {Absent}),
                  outputPath : OutputPaths]]

\* requests handled one after the other: a request arrives when no other
\* request is in flight
ReceiveAlone(r, calls) == rest = NoRest /\ LocalReceive(r, calls, MaxRequests)
PatchStatusAlone == pc["r1"] = "idle" /\ PatchStatus
DeleteInvoiceAlone == pc["r1"] = "idle" /\ DeleteInvoice

NextLocalRest ==
    \/ \E r \in {"r1"} :
          \/ ReceiveAlone(r, RestCalls)
          \/ ReceiveAlone(r, OtherCalls)
          \/ LocalHandler(r)
    \/ PatchStatusAlone
    \/ DeleteInvoiceAlone
    \/ PatchWrite
    \/ DeleteUnlink
    \/ DeleteWrite

SpecLocalRest == Init /\ [][NextLocalRest]_vars

(* C22: after DELETE /invoices/{invoiceNumber} answers success, the invoice's
   PDF file and its metadata entry are gone: a following GET of the invoice
   and of its file answer 404, and the metadata of every other invoice is
   unchanged. *)
DeleteAnswersSuccess ==
    /\ rest.op = "deleteWrite"
    /\ rest' = NoRest
    /\ lastRest' = RestAnswer("delete", rest.invoiceNumber, "none", 200, <<>>)

C22_DeleteRemovesInvoice ==
    [][DeleteAnswersSuccess =>
          LET n == rest.invoiceNumber
          IN  /\ \A o \in Outcomes : GetInvoice(metadataFile', n, o).code = 404
              /\ ServeFile(files', LocalFilename(n)).status = 404
              /\ \A f \in files' : f.pdf.invoiceNumber # n
              /\ metadataFile' = Some(WithoutInvoice(Get(metadataFile), n))]_vars

(* C23: PATCH /invoices/{invoiceNumber}/status changes the stored status only
   when the new status is one of generated, sent, paid and the invoice
   exists; a status outside that set yields 400 and an unknown invoice number
   yields 404, and in both cases the stored metadata is left unchanged. *)
PatchRejected ==
    /\ rest = NoRest
    /\ rest' = NoRest
    /\ lastRest' # lastRest
    /\ lastRest'.op = "patch"

PatchWritten ==
    /\ rest.op = "patch"
    /\ rest' = NoRest

\* the list with the status of invoice n replaced and nothing else changed
OnlyStatusChanged(before, after, n, status) ==
    /\ Len(after) = Len(before)
    /\ \A i \in 1..Len(before) :
          IF before[i].invoiceNumber = n
          THEN after[i] = [before[i] EXCEPT !.status = status]
          ELSE after[i] = before[i]

C23_StatusUpdateGuarded ==
    [][/\ PatchRejected =>
             /\ metadataFile' = metadataFile
             /\ lastRest'.code = IF lastRest'.status \in {"generated", "sent", "paid"}
                                 THEN 404 ELSE 400
       /\ PatchWritten =>
             /\ rest.status \in {"generated", "sent", "paid"}
             /\ IsSome(metadataFile)
             /\ IsSome(Find(Get(metadataFile), rest.invoiceNumber))
             /\ lastRest'.code \in {200, 500}
             /\ IF lastRest'.code = 200
                THEN OnlyStatusChanged(Get(metadataFile), Get(metadataFile'),
                                       rest.invoiceNumber, rest.status)
                ELSE metadataFile' = metadataFile
       /\ (rest.op # "patch" /\ IsSome(metadataFile) /\ IsSome(metadataFile')) =>
             \A n \in InvoiceNumbers :
                LET before == Find(Get(metadataFile), n)
                    after == Find(Get(metadataFile'), n)
                IN  (IsSome(before) /\ IsSome(after) /\ Get(after).status # Get(before).status)
                       => Get(after).status = "generated"]_vars

\* a status update has been stored while another invoice is on file
C23_Witness ==
    /\ lastRest.op = "patch"
    /\ lastRest.code = 200
    /\ lastRest.status = "paid"
    /\ IsSome(metadataFile)
    /\ Len(Get(metadataFile)) = 2
    /\ \E i \in 1..2 : Get(metadataFile)[i].status = "paid"
    /\ \E i \in 1..2 : Get(metadataFile)[i].status = "generated"

-----------------------------------------------------------------------------
(* The Supabase server: the /mcp endpoints and the session maps
   (index-smithery-robust.ts) *)

MaxSessions == 2

\* the session IDs requests may carry; the last one is never issued
SessionIds == 1..(MaxSessions + 1)

\* req.headers['mcp-session-id']
SessionHeaders == {Absent} \cup {Some(id) : id \in SessionIds}

\* map[sessionId] is defined
InMap(map, id) == \E e \in map : e.sessionId = id

\* map[sessionId]
Lookup(map, id) == (CHOOSE e \in map : e.sessionId = id).object

\* delete map[sessionId]
DeleteKey(map, id) == {e \in map : e.sessionId # id}

\* the request and its answer; `transport` is the transport whose
\* handleRequest got the request (0: none), `code` and `error` the answer
\* written by the endpoint itself
McpAnswer(method, sessionId, initialize, code, error, transport) ==
    [method |-> method, sessionId |-> sessionId, initialize |-> initialize,
     code |-> code, error |-> error, transport |-> transport]

\* sessionId && transports[sessionId] && servers[sessionId]
KnownSession(sessionId) ==
    /\ IsSome(sessionId)
    /\ InMap(transports, Get(sessionId))
    /\ InMap(servers, Get(sessionId))

\* POST /mcp: reuse of an existing session
PostReuse ==
    /\ \E sessionId \in SessionHeaders, initialize \in BOOLEAN :
          /\ KnownSession(sessionId)
          /\ lastMcp' = McpAnswer("POST", sessionId, initialize, 0, 0,
                                  Lookup(transports, Get(sessionId)))
    /\ UNCHANGED <<handlerVars, restVars, configVars, authVars, metadataVars,
                   transports, servers, created, closed>>

\* POST /mcp: an initialize request without session ID; the transport's
\* handleRequest calls onsessioninitialized with a fresh ID
PostInitialize ==
    /\ created < MaxSessions
    /\ created' = created + 1
    /\ transports' = transports \cup {[sessionId |-> created', object |-> created']}
    /\ servers' = servers \cup {[sessionId |-> created', object |-> created']}
    /\ lastMcp' = McpAnswer("POST", Absent, TRUE, 0, 0, created')
    /\ UNCHANGED <<handlerVars, restVars, configVars, authVars, metadataVars, closed>>

\* POST /mcp: an initialize request whose parseConfig throws: the catch
PostInitializeFails ==
    /\ lastMcp' = McpAnswer("POST", Absent, TRUE, 500, -32603, 0)
    /\ UNCHANGED <<handlerVars, restVars, configVars, authVars, metadataVars,
                   transports, servers, created, closed>>

\* a rejected request for which a session is set up all the same
PostInvalidCreates ==
    /\ created < MaxSessions
    /\ created' = created + 1
    /\ transports' = transports \cup {[sessionId |-> created', object |-> created']}
    /\ servers' = servers \cup {[sessionId |-> created', object |-> created']}
    /\ lastMcp' = McpAnswer("POST", Absent, FALSE, 400, -32000, 0)
    /\ UNCHANGED <<handlerVars, restVars, configVars, authVars, metadataVars, closed>>

\* POST /mcp: the else branch
PostInvalid ==
    /\ \E sessionId \in SessionHeaders, initialize \in BOOLEAN :
          /\ ~KnownSession(sessionId)
          /\ ~(~IsSome(sessionId) /\ initialize)
          /\ lastMcp' = McpAnswer("POST", sessionId, initialize, 400, -32000, 0)
    /\ UNCHANGED <<handlerVars, restVars, configVars, authVars, metadataVars,
                   transports, servers, created, closed>>

\* GET /mcp and DELETE /mcp: !sessionId || !transports[sessionId]
SessionInvalid ==
    /\ \E method \in {"GET", "DELETE"}, sessionId \in SessionHeaders :
          /\ ~(IsSome(sessionId) /\ InMap(transports, Get(sessionId)))
          /\ lastMcp' = McpAnswer(method, sessionId, FALSE, 400, 0, 0)
    /\ UNCHANGED <<handlerVars, restVars, configVars, authVars, metadataVars,
                   transports, servers, created, closed>>

\* GET /mcp: handed to the session's transport
GetHandled ==
    /\ \E sessionId \in SessionHeaders :
          /\ IsSome(sessionId) /\ InMap(transports, Get(sessionId))
          /\ lastMcp' = McpAnswer("GET", sessionId, FALSE, 0, 0,
                                  Lookup(transports, Get(sessionId)))
    /\ UNCHANGED <<handlerVars, restVars, configVars, authVars, metadataVars,
                   transports, servers, created, closed>>

\* a closing transport that is removed from `transports` only
DeleteHandledKeepsServer ==
    \E sessionId \in SessionHeaders :
        /\ IsSome(sessionId) /\ InMap(transports, Get(sessionId))
        /\ lastMcp' = McpAnswer("DELETE", sessionId, FALSE, 0, 0,
                                Lookup(transports, Get(sessionId)))
        /\ closed' = closed \cup {Lookup(transports, Get(sessionId))}
        /\ transports' = DeleteKey(transports, Get(sessionId))
        /\ UNCHANGED <<handlerVars, restVars, configVars, authVars, metadataVars,
                       servers, created>>

\* DELETE /mcp: handed to the session's transport, which closes; its onclose
\* deletes transports[transport.sessionId] and servers[transport.sessionId]
DeleteHandled ==
    \E sessionId \in SessionHeaders :
        /\ IsSome(sessionId) /\ InMap(transports, Get(sessionId))
        /\ lastMcp' = McpAnswer("DELETE", sessionId, FALSE, 0, 0,
                                Lookup(transports, Get(sessionId)))
        /\ closed' = closed \cup {Lookup(transports, Get(sessionId))}
        /\ transports' = DeleteKey(transports, Get(sessionId))
        /\ servers' = DeleteKey(servers, Get(sessionId))
        /\ UNCHANGED <<handlerVars, restVars, configVars, authVars, metadataVars, created>>

NextSessions ==
    \/ PostReuse
    \/ PostInitialize
    \/ PostInitializeFails
    \/ PostInvalid
    \/ SessionInvalid
    \/ GetHandled
    \/ DeleteHandled

SpecSessions == Init /\ [][NextSessions]_vars

(* C24: a POST /mcp request that is not an initialize request and carries no
   session ID, or that carries a session ID not currently registered, is
   answered with HTTP 400 and JSON-RPC error -32000, and creates no server,
   no transport and no session entry. *)
C24_UnknownSessionRejected ==
    [][(lastMcp' # lastMcp /\ lastMcp'.method = "POST") =>
          LET sessionId == lastMcp'.sessionId
          IN  (\/ ~IsSome(sessionId) /\ ~lastMcp'.initialize
               \/ IsSome(sessionId) /\ ~InMap(transports, Get(sessionId))
               \/ IsSome(sessionId) /\ ~InMap(servers, Get(sessionId)))
                 => /\ lastMcp'.code = 400
                    /\ lastMcp'.error = -32000
                    /\ lastMcp'.transport = 0
                    /\ created' = created
                    /\ transports' = transports
                    /\ servers' = servers]_vars

\* a POST carrying the ID of a session that was closed has been rejected,
\* while another session is registered
C24_Witness ==
    /\ lastMcp.method = "POST"
    /\ IsSome(lastMcp.sessionId)
    /\ Get(lastMcp.sessionId) \in closed
    /\ ~lastMcp.initialize
    /\ lastMcp.code = 400
    /\ transports # {}

(* C29: the transports and servers maps always hold the same set of session
   IDs; once a session's transport has closed its ID is in neither map, and
   every later GET, DELETE or POST /mcp carrying that ID is answered 400 and
   is never handled by the closed transport. *)
Keys(map) == {e.sessionId : e \in map}

\* the session IDs of the transports that have closed (a transport's
\* sessionId is the ID it generated)
ClosedSessions == closed

SessionMapsAgree ==
    /\ Keys(transports) = Keys(servers)
    /\ Keys(transports) \cap ClosedSessions = {}
    /\ \A e \in transports : e.object \notin closed

C29_ClosedSessionsStayClosed ==
    /\ []SessionMapsAgree
    /\ [][(lastMcp' # lastMcp /\ IsSome(lastMcp'.sessionId)
              /\ Get(lastMcp'.sessionId) \in ClosedSessions)
             => /\ lastMcp'.code = 400
                /\ lastMcp'.transport = 0]_vars

\* a GET or DELETE carrying the ID of a closed session has been answered 400
C29_Witness ==
    /\ lastMcp.method \in {"GET", "DELETE"}
    /\ IsSome(lastMcp.sessionId)
    /\ Get(lastMcp.sessionId) \in ClosedSessions
    /\ lastMcp.code = 400
    /\ lastMcp.transport = 0
    /\ Keys(servers) # {}

-----------------------------------------------------------------------------
(* parseConfig (index-smithery-robust.ts) *)

\* a credential as a request or the environment may carry it: missing, the
\* empty string, the placeholder 'string', or a real value
Placeholder == "string"
Credentials == {Absent, Some(""), Some(Placeholder), Some("real")}

RawConfigs ==
    [supabaseUrl : Credentials, supabaseKey : Credentials,
     storageBucket : {Absent, Some("bucket")}]

EmptyConfig == [supabaseUrl |-> Absent, supabaseKey |-> Absent, storageBucket |-> Absent]

\* req.query.config: missing, not decodable as JSON, or an encoded object
Base64Params == {Absent, Some([parsed |-> Absent])}
                \cup {Some([parsed |-> Some(c)]) : c \in RawConfigs}

\* process.env: SUPABASE_URL || supabaseUrl || SUPABASE_PROJECT_URL, and so on
Environments == [supabaseUrl : Credentials, supabaseKey : Credentials]

ConfigInputs == [base64 : Base64Params, query : RawConfigs, env : Environments]

\* !value
Falsy(credential) == ~IsSome(credential) \/ Get(credential) = ""

\* hasPlaceholders
HasPlaceholders(c) ==
    \/ c.supabaseUrl = Some(Placeholder)
    \/ c.supabaseKey = Some(Placeholder)
    \/ Falsy(c.supabaseUrl)
    \/ Falsy(c.supabaseKey)

\* Method 1: the base64-encoded config parameter
FromBase64(input) ==
    IF /\ IsSome(input.base64)
       /\ IsSome(Get(input.base64).parsed)
       /\ ~HasPlaceholders(Get(Get(input.base64).parsed))
    THEN Get(Get(input.base64).parsed)
    ELSE EmptyConfig

\* Method 2: dot-notation query parameters, when method 1 gave nothing
FromQuery(input, rawConfig) ==
    IF rawConfig = EmptyConfig THEN input.query ELSE rawConfig

\* Method 3: environment variables, when there is no config or a placeholder
FromEnvironment(input, rawConfig) ==
    IF (rawConfig = EmptyConfig \/ HasPlaceholders(rawConfig))
       /\ ~Falsy(input.env.supabaseUrl) /\ ~Falsy(input.env.supabaseKey)
    THEN [supabaseUrl |-> input.env.supabaseUrl, supabaseKey |-> input.env.supabaseKey,
          storageBucket |-> Some("invoices")]
    ELSE rawConfig

\* configSchema.parse: supabaseUrl and supabaseKey are z.string()
ConfigSchemaParse(rawConfig) ==
    IF IsSome(rawConfig.supabaseUrl) /\ IsSome(rawConfig.supabaseKey)
    THEN [thrown |-> FALSE,
          config |-> Some([rawConfig EXCEPT !.storageBucket =
                              IF IsSome(@) THEN @ ELSE Some("invoices")])]
    ELSE [thrown |-> TRUE, config |-> Absent]

ParseConfig(input) ==
    ConfigSchemaParse(FromEnvironment(input, FromQuery(input, FromBase64(input))))

\* a request arrives: its query and the environment are any of the inputs
InitConfig ==
    /\ InitButConfig
    /\ configInput \in ConfigInputs

ApplyParseConfig ==
    /\ configResult = NoConfigResult
    /\ configResult' = ParseConfig(configInput)
    /\ UNCHANGED <<handlerVars, restVars, sessionVars, authVars, metadataVars, configInput>>

NextConfig == ApplyParseConfig

SpecConfig == InitConfig /\ [][NextConfig]_vars

(* C25: parseConfig never returns a configuration whose supabaseUrl or
   supabaseKey is the placeholder 'string': for every combination of base64
   parameter, dot-notation parameters and environment variables, it either
   returns real credentials or throws. *)
C25_NoPlaceholderConfig ==
    (configResult # NoConfigResult /\ ~configResult.thrown) =>
        /\ Get(configResult.config).supabaseUrl = Some("real")
        /\ Get(configResult.config).supabaseKey = Some("real")

(* C26: within one server instance, SupabaseManager.initialize is started at
   most once while no earlier initialisation has failed, also when several
   tool calls arrive before the first initialisation has finished; and no
   PDF is uploaded before an initialisation has completed successfully. *)
Initializing == {r \in Reqs : pc[r] = "initializing"}

\* every request received so far is inside initialize(): none has failed
NoneFailedYet == Cardinality(Initializing) = clock

C26_InitializedOnce ==
    /\ NoneFailedYet => Cardinality(Initializing) <= 1
    /\ \A r \in Reqs : storeCalls[r] # <<>> => initialized
    /\ bucket # {} => initialized

-----------------------------------------------------------------------------
(* cloud-storage.ts: MetadataStorage *)

MaxSaves == 3

\* what fetch(metadataUrl) of getAllMetadata may do
ReadOutcomes == {"ok", "not-ok", "rejected"}

\* MetadataStorage.getAllMetadata(): [] when the response is not ok (no such
\* file yet) and when fetch or JSON.parse throws
GetAllMetadata(store, read) ==
    IF read = "ok" /\ IsSome(store) THEN Get(store) ELSE <<>>

\* MetadataStorage.saveMetadata(metadata); an upload error is only logged
SaveMetadata ==
    /\ Len(saved) < MaxSaves
    /\ \E n \in InvoiceNumbers, read \in ReadOutcomes, fetched \in FetchOutcomes :
          LET metadata == [invoiceNumber |-> n, createdAt |-> Len(saved) + 1]
              existing == GetAllMetadata(metadataStore, read)
              filteredData == Append(WithoutInvoice(existing, n), metadata)
          IN  /\ metadataStore' = IF Stored(fetched) THEN Some(filteredData)
                                  ELSE metadataStore
              /\ saved' = Append(saved, [metadata |-> metadata, fetched |-> fetched])
    /\ UNCHANGED <<handlerVars, restVars, sessionVars, configVars, authVars>>

NextMetadata == SaveMetadata

SpecMetadata == Init /\ [][NextMetadata]_vars

(* C27: after any sequence of saveMetadata calls, the stored list contains
   exactly one entry for each distinct invoice number ever saved, equal to
   the most recent entry saved for that number; saving one invoice never
   drops the entries of other invoices, also when reading the existing
   metadata fails. *)
\* the saves the store has kept, by position in `saved`
KeptSaves == {i \in 1..Len(saved) : Stored(saved[i].fetched)}

\* the most recent entry kept for invoice number n
MostRecent(n) ==
    LET of == {i \in KeptSaves : saved[i].metadata.invoiceNumber = n}
    IN  saved[CHOOSE i \in of : \A j \in of : j <= i].metadata

C27_OneEntryPerInvoice ==
    LET list == GetAllMetadata(metadataStore, "ok")
        numbers == {saved[i].metadata.invoiceNumber : i \in KeptSaves}
    IN  /\ \A n \in numbers :
              /\ Cardinality({i \in 1..Len(list) : list[i].invoiceNumber = n}) = 1
              /\ \E i \in 1..Len(list) : list[i] = MostRecent(n)
        /\ \A i \in 1..Len(list) : list[i].invoiceNumber \in numbers

-----------------------------------------------------------------------------
(* The local-file server with a generation request and an /invoices request
   in flight at once *)

\* generation requests for two invoices, written to the temp directory
ConcurrentCalls ==
    [tool : {GenerateTool},
     arguments : [invoice : InvoiceData({OneItem, <<>>}, {"2030-01-31"}, {Some("USD")},
                                        {Some(10)}, {Absent}),
                  outputPath : {Absent}]]

NextLocalRestConcurrent ==
    \/ \E r \in {"r1"} :
          \/ LocalReceive(r, ConcurrentCalls, MaxRequests)
          \/ LocalReceive(r, OtherCalls, MaxRequests)
          \/ LocalHandler(r)
    \/ PatchStatus
    \/ PatchWrite
    \/ DeleteInvoice
    \/ DeleteUnlink
    \/ DeleteWrite

SpecLocalRestConcurrent == Init /\ [][NextLocalRestConcurrent]_vars

(* C28: when two generation requests with different invoice numbers run
   concurrently and both report success, the metadata file afterwards holds
   the entries of both; likewise a status update or delete running
   concurrently with a generation never loses the other operation's change. *)
\* the operation that writes the metadata file in this step works on invoice n
WriterOf(n) ==
    \/ \E r \in Reqs : /\ pc[r] = "saveMetadata"
                       /\ pc'[r] = "done"
                       /\ args[r].arguments.invoice.invoiceNumber = n
    \/ /\ rest.op \in {"patch", "deleteWrite"}
       /\ rest' = NoRest
       /\ rest.invoiceNumber = n

C28_NoLostUpdate ==
    [][\A n \in InvoiceNumbers :
          Find(GetInvoiceMetadata(metadataFile', "ok"), n)
             # Find(GetInvoiceMetadata(metadataFile, "ok"), n)
          => WriterOf(n)]_vars

-----------------------------------------------------------------------------
(* The stateless server (src/unnamed/part_007): authenticateRequest *)

\* the connections and the apiKey each supplies in its configuration
Connections == {"c1", "c2", "c3"}

ConfigOf(connection) ==
    [apiKey |-> IF connection = "c1" THEN Some("key-1")
                ELSE IF connection = "c2" THEN Some("key-2")
                ELSE Absent]

\* currentConfig?.apiKey || 'sk-m1vision-invoice-mcp-2024-09-11-abcdef1234567890'
DefaultApiKey == "sk-m1vision-invoice-mcp-2024-09-11-abcdef1234567890"

Tokens == {"key-1", "key-2", DefaultApiKey, ""}

\* req.headers.authorization: missing, or a scheme followed by a token
AuthHeaders == {Absent} \cup {Some(<<scheme, token>>) : scheme \in {"Bearer ", "Basic "},
                                                         token \in Tokens}

ExpectedApiKey(config) ==
    IF IsSome(config) /\ IsSome(Get(config).apiKey) THEN Get(Get(config).apiKey)
    ELSE DefaultApiKey

\* authenticateRequest: TRUE when next() is called
Authenticates(authHeader, config) ==
    /\ IsSome(authHeader)
    /\ Get(authHeader)[1] = "Bearer "
    /\ Get(authHeader)[2] # ""
    /\ Get(authHeader)[2] = ExpectedApiKey(config)

AuthAnswer(connection, authHeader, code) ==
    [connection |-> Some(connection), authorization |-> authHeader, code |-> code]

\* a request to /mcp that the middleware answers with 401
McpUnauthorized ==
    /\ \E connection \in Connections, authHeader \in AuthHeaders :
          /\ ~Authenticates(authHeader, currentConfig)
          /\ lastAuth' = AuthAnswer(connection, authHeader, 401)
    /\ UNCHANGED <<handlerVars, restVars, sessionVars, configVars, metadataVars,
                   currentConfig>>

\* a request to /mcp that the middleware passes on: the stateless server
\* creates the request's server, which sets currentConfig = config
McpAuthorized ==
    /\ \E connection \in Connections, authHeader \in AuthHeaders :
          /\ Authenticates(authHeader, currentConfig)
          /\ lastAuth' = AuthAnswer(connection, authHeader, 200)
          /\ currentConfig' = Some(ConfigOf(connection))
    /\ UNCHANGED <<handlerVars, restVars, sessionVars, configVars, metadataVars>>

NextAuth ==
    \/ McpUnauthorized
    \/ McpAuthorized

SpecAuth == Init /\ [][NextAuth]_vars

(* C30: authenticateRequest lets a request to /mcp proceed only when its
   Authorization header is 'Bearer ' followed by the API key of the
   configuration that the request's own connection supplied; every other
   request is answered 401 and is not passed on. *)
C30_OwnApiKeyRequired ==
    lastAuth.code # 0 =>
        LET own == ConfigOf(Get(lastAuth.connection)).apiKey
        IN  IF IsSome(own) /\ lastAuth.authorization = Some(<<"Bearer ", Get(own)>>)
            THEN lastAuth.code \in {200, 401}
            ELSE lastAuth.code = 401

====
